---- MODULE Spec2Model ----
(***************************************************************************)
(* Geometry pipeline of react-native-ballast-charts: gap detection, data   *)
(* scaling (proportional and fixed-width-gap), hit-zone lookup table,      *)
(* gesture hit test and path generation.                                   *)
(*                                                                         *)
(* Numbers.  The program computes with JavaScript numbers.  The model      *)
(* computes with exact rationals <<n, d>> (d > 0, lowest terms), extended  *)
(* with the three non-finite values a division by zero produces:           *)
(* <<1, 0>> = +Infinity, <<-1, 0>> = -Infinity, <<0, 0>> = NaN.  Rounding  *)
(* of the binary floating-point format is not modelled.                    *)
(***************************************************************************)
EXTENDS Integers, Sequences, FiniteSets, TLC

\* ------------------------------------------------------------------------
\* Bounds of the model
\* ------------------------------------------------------------------------

\* longest series (data.x.length)
MaxPoints == 4

\* largest raw x value of a series
MaxX == 4


\* pointer positions sampled across the rectangle: rect.x + k * width / PointerSteps
PointerSteps == 8

\* ------------------------------------------------------------------------
\* Exact arithmetic
\* ------------------------------------------------------------------------

Abs(n) == IF n < 0 THEN -n ELSE n

Sign(n) == IF n < 0 THEN -1 ELSE IF n > 0 THEN 1 ELSE 0

RECURSIVE Gcd(_, _)
Gcd(a, b) == IF b = 0 THEN a ELSE Gcd(b, a % b)

\* the number n/d; a zero denominator gives +Infinity, -Infinity or NaN
Rat(n, d) ==
  IF d = 0 THEN <<Sign(n), 0>>
  ELSE LET g == Gcd(Abs(n), Abs(d))
           s == IF d < 0 THEN -1 ELSE 1
       IN  <<(s * n) \div g, (s * d) \div g>>

I(n) == <<n, 1>>

NaN == <<0, 0>>

IsFinite(a) == a[2] # 0

IsNaN(a) == a = NaN

RNeg(a) == <<-a[1], a[2]>>

RAdd(a, b) ==
  IF a[2] = 1 /\ b[2] = 1 THEN <<a[1] + b[1], 1>>
  ELSE IF IsFinite(a) /\ IsFinite(b) THEN Rat(a[1] * b[2] + b[1] * a[2], a[2] * b[2])
  ELSE IF IsNaN(a) \/ IsNaN(b) THEN NaN
  ELSE IF IsFinite(a) THEN b
  ELSE IF IsFinite(b) THEN a
  ELSE IF a = b THEN a ELSE NaN

RSub(a, b) == RAdd(a, RNeg(b))

RMul(a, b) ==
  IF a[2] = 1 /\ b[2] = 1 THEN <<a[1] * b[1], 1>>
  ELSE IF IsFinite(a) /\ IsFinite(b) THEN Rat(a[1] * b[1], a[2] * b[2])
  ELSE IF IsNaN(a) \/ IsNaN(b) THEN NaN
  ELSE <<Sign(a[1]) * Sign(b[1]), 0>>

RDiv(a, b) ==
  IF IsFinite(a) /\ IsFinite(b) THEN
       IF b[1] = 0 THEN <<Sign(a[1]), 0>> ELSE Rat(a[1] * b[2], a[2] * b[1])
  ELSE IF IsNaN(a) \/ IsNaN(b) THEN NaN
  ELSE IF IsFinite(b) THEN <<a[1] * (IF b[1] < 0 THEN -1 ELSE 1), 0>>
  ELSE IF IsFinite(a) THEN I(0)
  ELSE NaN

\* a < b as JavaScript compares numbers: false when either side is NaN
RLt(a, b) ==
  IF IsNaN(a) \/ IsNaN(b) THEN FALSE
  ELSE IF IsFinite(a) /\ IsFinite(b) THEN a[1] * b[2] < b[1] * a[2]
  ELSE IF IsFinite(a) THEN b[1] > 0
  ELSE IF IsFinite(b) THEN a[1] < 0
  ELSE a[1] < b[1]

\* a === b on numbers
REq(a, b) == ~IsNaN(a) /\ ~IsNaN(b) /\ a = b

RLe(a, b) == RLt(a, b) \/ REq(a, b)

RGt(a, b) == RLt(b, a)

RGe(a, b) == RLe(b, a)

\* Math.min(...xs), Math.max(...xs) of a non-empty sequence
RECURSIVE RMinFrom(_, _, _)
RMinFrom(xs, i, m) ==
  IF i > Len(xs) THEN m
  ELSE RMinFrom(xs, i + 1, IF RLt(xs[i], m) THEN xs[i] ELSE m)

RMin(xs) == RMinFrom(xs, 2, xs[1])

RECURSIVE RMaxFrom(_, _, _)
RMaxFrom(xs, i, m) ==
  IF i > Len(xs) THEN m
  ELSE RMaxFrom(xs, i + 1, IF RGt(xs[i], m) THEN xs[i] ELSE m)

RMax(xs) == RMaxFrom(xs, 2, xs[1])

\* an optional number that is not given (undefined); a given one is <<n, d>>
Undefined == << >>

\* ------------------------------------------------------------------------
\* Gap detection (utils/gapDetection)
\* ------------------------------------------------------------------------

\* PERFORMANCE_CONSTANTS.DEFAULT_GAP_THRESHOLD = 2.5
DEFAULT_GAP_THRESHOLD == Rat(5, 2)

\* intervals.push(timestamps[i] - timestamps[i - 1]) for i = 1 .. length-1
Intervals(timestamps) ==
  [k \in 1..(Len(timestamps) - 1) |-> RSub(timestamps[k + 1], timestamps[k])]

\* one value put into an ascending sequence, after the values equal to it
RECURSIVE InsertNum(_, _)
InsertNum(sorted, v) ==
  IF sorted = << >> THEN <<v>>
  ELSE IF RLt(v, Head(sorted)) THEN <<v>> \o sorted
  ELSE <<Head(sorted)>> \o InsertNum(Tail(sorted), v)

\* intervals.sort((a, b) => a - b)
RECURSIVE SortNumFrom(_, _, _)
SortNumFrom(xs, i, acc) ==
  IF i > Len(xs) THEN acc ELSE SortNumFrom(xs, i + 1, InsertNum(acc, xs[i]))

SortNum(xs) == SortNumFrom(xs, 1, << >>)

\* intervals[Math.floor(intervals.length / 2)] of the sorted intervals
MiddleOf(sorted) == sorted[(Len(sorted) \div 2) + 1]

calculateExpectedInterval(timestamps) ==
  IF Len(timestamps) < 2 THEN I(0)
  ELSE MiddleOf(SortNum(Intervals(timestamps)))

\* the threshold parameter with its default value
ThresholdOrDefault(threshold) ==
  IF threshold = Undefined THEN DEFAULT_GAP_THRESHOLD ELSE threshold

\* a test that also flags a delta equal to the bound, to compare with IsGapPair
IsGapPairInclusive(timeDiff, threshold, expectedInterval) ==
  RGe(timeDiff, RMul(threshold, expectedInterval))

\* the test of the "Find gaps" loop for the pair (i - 1, i), i 0-based
IsGapPair(timeDiff, threshold, expectedInterval) ==
  RGt(timeDiff, RMul(threshold, expectedInterval))

RECURSIVE FindGapsFrom(_, _, _, _, _)
FindGapsFrom(timestamps, threshold, expectedInterval, i, found) ==
  IF i >= Len(timestamps) THEN found
  ELSE LET timeDiff == RSub(timestamps[i + 1], timestamps[i])
           gap == [startIndex |-> i - 1, endIndex |-> i,
                   startX |-> timestamps[i], endX |-> timestamps[i + 1],
                   duration |-> timeDiff]
       IN  FindGapsFrom(timestamps, threshold, expectedInterval, i + 1,
             IF IsGapPair(timeDiff, threshold, expectedInterval)
               THEN Append(found, gap) ELSE found)

detectGaps(timestamps, threshold) ==
  IF Len(timestamps) < 2 THEN << >>
  ELSE FindGapsFrom(timestamps, ThresholdOrDefault(threshold),
         MiddleOf(SortNum(Intervals(timestamps))), 1, << >>)

\* ------------------------------------------------------------------------
\* Data scaling (hooks/useDataScaling)
\*
\* A GapConfig is a record [enabled, fixedWidthGaps, threshold, fixedWidth];
\* the two flags are read only for their truthiness, so an absent flag and
\* an absent gaps prop are the record with FALSE flags and Undefined numbers.
\* A yRange override is a sequence: << >> when absent, <<range>> when given.
\* ------------------------------------------------------------------------

\* xRange = {min: Math.min(...xData), max: Math.max(...xData)}
XRangeOf(xData) == [min |-> RMin(xData), max |-> RMax(xData)]

\* a padding of a tenth of the span, to compare with YPaddingOf
YPaddingOfTenth(yMin, yMax) == RMul(RSub(yMax, yMin), Rat(10, 100))

\* yPadding = (yRange.max - yRange.min) * 0.05
YPaddingOf(yMin, yMax) == RMul(RSub(yMax, yMin), Rat(5, 100))

\* yRange: the override verbatim, or the data range widened by the padding
YRangeOf(yData, yRangeOverride) ==
  IF yRangeOverride # << >> THEN yRangeOverride[1]
  ELSE LET lo == RMin(yData)
           hi == RMax(yData)
           yPadding == YPaddingOf(lo, hi)
       IN  [min |-> RSub(lo, yPadding), max |-> RAdd(hi, yPadding)]

\* detectedGaps: detected on xData as given, only in fixed-width-gap mode
DetectedGapsOf(xData, g) ==
  IF g.enabled /\ g.fixedWidthGaps THEN detectGaps(xData, g.threshold)
  ELSE << >>

\* !gaps?.fixedWidthGaps || detectedGaps.length === 0
UsesStandardScaling(g, detectedGaps) == ~g.fixedWidthGaps \/ Len(detectedGaps) = 0

\* gaps.fixedWidth || 40
FixedGapWidthOf(g) ==
  IF g.fixedWidth = Undefined \/ g.fixedWidth = I(0) THEN I(40) ELSE g.fixedWidth

\* segment i (0-based, 0 .. detectedGaps.length) of the fixed-width scaling
SegmentStart(xRange, detectedGaps, i) ==
  IF i = 0 THEN xRange.min ELSE detectedGaps[i].endX

SegmentEnd(xRange, detectedGaps, i) ==
  IF i = Len(detectedGaps) THEN xRange.max ELSE detectedGaps[i + 1].startX

RECURSIVE TotalDataTimeSpanFrom(_, _, _, _)
TotalDataTimeSpanFrom(xRange, detectedGaps, i, total) ==
  IF i > Len(detectedGaps) THEN total
  ELSE TotalDataTimeSpanFrom(xRange, detectedGaps, i + 1,
         RAdd(total, RSub(SegmentEnd(xRange, detectedGaps, i),
                          SegmentStart(xRange, detectedGaps, i))))

TotalDataTimeSpanOf(xRange, detectedGaps) ==
  TotalDataTimeSpanFrom(xRange, detectedGaps, 0, I(0))

\* dataWidth = chartArea.width - detectedGaps.length * fixedGapWidth
DataWidthOf(area, detectedGaps, fixedGapWidth) ==
  RSub(area.width, RMul(I(Len(detectedGaps)), fixedGapWidth))

\* what the scaling functions close over: the ranges, the detected gaps and
\* the constants createScalingFunctions computes once
ScalingContext(d, area, g, yRangeOverride) ==
  LET xRange == XRangeOf(d.x)
      detectedGaps == DetectedGapsOf(d.x, g)
      fixedGapWidth == FixedGapWidthOf(g)
      totalDataTimeSpan == TotalDataTimeSpanOf(xRange, detectedGaps)
  IN  [xRange |-> xRange,
       yRange |-> YRangeOf(d.y, yRangeOverride),
       detectedGaps |-> detectedGaps,
       chartArea |-> area,
       standard |-> UsesStandardScaling(g, detectedGaps),
       fixedGapWidth |-> fixedGapWidth,
       totalDataTimeSpan |-> totalDataTimeSpan,
       timeToPixelRatio |->
         RDiv(DataWidthOf(area, detectedGaps, fixedGapWidth), totalDataTimeSpan)]

\* the linear map without the zero-span test, to compare with StandardScaleX
StandardScaleXUnguarded(sc, value) ==
  RAdd(sc.chartArea.x,
       RMul(RDiv(RSub(value, sc.xRange.min), RSub(sc.xRange.max, sc.xRange.min)),
            sc.chartArea.width))

\* standard linear scaling
StandardScaleX(sc, value) ==
  LET xSpan == RSub(sc.xRange.max, sc.xRange.min)
  IN  IF REq(xSpan, I(0))
        THEN RAdd(sc.chartArea.x, RDiv(sc.chartArea.width, I(2)))
        ELSE RAdd(sc.chartArea.x,
               RMul(RDiv(RSub(value, sc.xRange.min), xSpan), sc.chartArea.width))

StandardUnscaleX(sc, coordinate) ==
  LET xSpan == RSub(sc.xRange.max, sc.xRange.min)
  IN  IF REq(xSpan, I(0)) THEN sc.xRange.min
      ELSE RAdd(sc.xRange.min,
             RMul(RDiv(RSub(coordinate, sc.chartArea.x), sc.chartArea.width), xSpan))

\* the segment loop of the fixed-width scaleX
RECURSIVE FixedScaleXFrom(_, _, _, _, _)
FixedScaleXFrom(sc, value, i, cumulativePixels, cumulativeGaps) ==
  IF i > Len(sc.detectedGaps) THEN sc.chartArea.x
  ELSE LET segmentStart == SegmentStart(sc.xRange, sc.detectedGaps, i)
           segmentEnd == SegmentEnd(sc.xRange, sc.detectedGaps, i)
       IN  IF RGe(value, segmentStart) /\ RLe(value, segmentEnd)
             THEN RAdd(RAdd(RAdd(sc.chartArea.x, cumulativePixels),
                            RMul(RSub(value, segmentStart), sc.timeToPixelRatio)),
                       RMul(I(cumulativeGaps), sc.fixedGapWidth))
             ELSE FixedScaleXFrom(sc, value, i + 1,
                    RAdd(cumulativePixels,
                         RMul(RSub(segmentEnd, segmentStart), sc.timeToPixelRatio)),
                    IF i < Len(sc.detectedGaps) THEN cumulativeGaps + 1
                    ELSE cumulativeGaps)

FixedScaleX(sc, value) ==
  IF REq(sc.totalDataTimeSpan, I(0))
    THEN RAdd(sc.chartArea.x, RDiv(sc.chartArea.width, I(2)))
    ELSE FixedScaleXFrom(sc, value, 0, I(0), 0)

\* the segment loop of the fixed-width unscaleX
RECURSIVE FixedUnscaleXFrom(_, _, _, _, _)
FixedUnscaleXFrom(sc, relativeCoord, i, cumulativePixels, cumulativeGaps) ==
  IF i > Len(sc.detectedGaps) THEN sc.xRange.min
  ELSE LET segmentStart == SegmentStart(sc.xRange, sc.detectedGaps, i)
           segmentEnd == SegmentEnd(sc.xRange, sc.detectedGaps, i)
           segmentPixelWidth == RMul(RSub(segmentEnd, segmentStart), sc.timeToPixelRatio)
           segmentStartPixel ==
             RAdd(cumulativePixels, RMul(I(cumulativeGaps), sc.fixedGapWidth))
           segmentEndPixel == RAdd(segmentStartPixel, segmentPixelWidth)
           gapEndPixel == RAdd(segmentEndPixel, sc.fixedGapWidth)
       IN  IF RGe(relativeCoord, segmentStartPixel) /\ RLe(relativeCoord, segmentEndPixel)
             THEN RAdd(segmentStart,
                       RDiv(RSub(relativeCoord, segmentStartPixel), sc.timeToPixelRatio))
           ELSE IF i < Len(sc.detectedGaps)
                   /\ RGe(relativeCoord, segmentEndPixel) /\ RLe(relativeCoord, gapEndPixel)
             THEN segmentEnd
           ELSE FixedUnscaleXFrom(sc, relativeCoord, i + 1,
                  RAdd(cumulativePixels, segmentPixelWidth),
                  IF i < Len(sc.detectedGaps) THEN cumulativeGaps + 1
                  ELSE cumulativeGaps)

FixedUnscaleX(sc, coordinate) ==
  IF REq(sc.totalDataTimeSpan, I(0)) THEN sc.xRange.min
  ELSE FixedUnscaleXFrom(sc, RSub(coordinate, sc.chartArea.x), 0, I(0), 0)

\* createScalingFunctions(): the pair the mode selects
scaleX(sc, value) ==
  IF sc.standard THEN StandardScaleX(sc, value) ELSE FixedScaleX(sc, value)

unscaleX(sc, coordinate) ==
  IF sc.standard THEN StandardUnscaleX(sc, coordinate) ELSE FixedUnscaleX(sc, coordinate)

scaleY(sc, value) ==
  LET ySpan == RSub(sc.yRange.max, sc.yRange.min)
  IN  IF REq(ySpan, I(0))
        THEN RAdd(sc.chartArea.y, RDiv(sc.chartArea.height, I(2)))
        ELSE RSub(RAdd(sc.chartArea.y, sc.chartArea.height),
               RMul(RDiv(RSub(value, sc.yRange.min), ySpan), sc.chartArea.height))

unscaleY(sc, coordinate) ==
  LET ySpan == RSub(sc.yRange.max, sc.yRange.min)
  IN  IF REq(ySpan, I(0)) THEN sc.yRange.min
      ELSE RAdd(sc.yRange.min,
             RMul(RDiv(RSub(RAdd(sc.chartArea.y, sc.chartArea.height), coordinate),
                       sc.chartArea.height), ySpan))

\* scaledData = xData.map((x, index) => ({x, y, originalX, originalY, index}))
ScaledDataOf(sc, d) ==
  [k \in 1..Len(d.x) |->
     [x |-> scaleX(sc, d.x[k]), y |-> scaleY(sc, d.y[k]),
      originalX |-> d.x[k], originalY |-> d.y[k], index |-> k - 1]]

\* the hook's return value (the scaling functions are scaleX .. unscaleY of sc)
useDataScaling(d, area, g, yRangeOverride) ==
  LET sc == ScalingContext(d, area, g, yRangeOverride)
  IN  [sc |-> sc, scaledData |-> ScaledDataOf(sc, d),
       xRange |-> sc.xRange, yRange |-> sc.yRange]

\* ------------------------------------------------------------------------
\* Coordinate lookup table (hooks/useCoordinateLookup) and the gesture
\* hit test (hooks/useGestureHandling)
\* ------------------------------------------------------------------------

\* a zone that ends at its own point instead of the midpoint with the next
HitZoneEndsAtPoint(scaledXPositions, area, k) ==
  [start |-> IF k = 1 THEN area.x
             ELSE RDiv(RAdd(scaledXPositions[k - 1], scaledXPositions[k]), I(2)),
   end   |-> IF k = Len(scaledXPositions) THEN RAdd(area.x, area.width)
             ELSE scaledXPositions[k]]

\* the zone of point k (1-based) among the scaled x positions
HitZone(scaledXPositions, area, k) ==
  [start |-> IF k = 1 THEN area.x
             ELSE RDiv(RAdd(scaledXPositions[k - 1], scaledXPositions[k]), I(2)),
   end   |-> IF k = Len(scaledXPositions) THEN RAdd(area.x, area.width)
             ELSE RDiv(RAdd(scaledXPositions[k], scaledXPositions[k + 1]), I(2))]

calculateHitZones(scaledXPositions, area) ==
  [k \in 1..Len(scaledXPositions) |-> HitZone(scaledXPositions, area, k)]

\* the lookupTable of useCoordinateLookup
useCoordinateLookup(d, area, scaledData) ==
  IF Len(scaledData) = 0 \/ Len(d.x) = 0 \/ Len(d.y) = 0 THEN << >>
  ELSE LET scaledXPositions == [k \in 1..Len(scaledData) |-> scaledData[k].x]
           hitZones == calculateHitZones(scaledXPositions, area)
       IN  [k \in 1..Len(scaledData) |->
              [dataIndex |-> k - 1,
               originalX |-> scaledData[k].originalX,
               originalY |-> scaledData[k].originalY,
               scaledX |-> scaledData[k].x,
               scaledY |-> scaledData[k].y,
               hitZoneStart |-> hitZones[k].start,
               hitZoneEnd |-> hitZones[k].end]]

\* gestureX >= entry.hitZoneStart && gestureX < entry.hitZoneEnd
InHitZone(gestureX, entry) ==
  RGe(gestureX, entry.hitZoneStart) /\ RLt(gestureX, entry.hitZoneEnd)

\* the linear search; 0 when no entry's zone holds gestureX
RECURSIVE FirstZoneFrom(_, _, _)
FirstZoneFrom(gestureX, table, k) ==
  IF k > Len(table) THEN 0
  ELSE IF InHitZone(gestureX, table[k]) THEN k
  ELSE FirstZoneFrom(gestureX, table, k + 1)

\* the table position (1-based) of the entry returned, 0 for null
findCoordinateAtGestureX(gestureX, table) ==
  LET k == FirstZoneFrom(gestureX, table, 1)
  IN  IF k # 0 THEN k
      ELSE IF Len(table) > 0 /\ REq(gestureX, table[Len(table)].hitZoneEnd)
        THEN Len(table)
      ELSE 0

\* ------------------------------------------------------------------------
\* Path generation (utils/pathGeneration)
\*
\* A path string is the sequence of its instructions, each a tuple of the
\* command letter and its numbers in the order the string prints them:
\* <<"M", x, y>>, <<"L", x, y>>, <<"C", cp1x, cp1y, cp2x, cp2y, x, y>>,
\* <<"A", rx, ry, rot, largeArc, sweep, x, y>>.  The empty string is << >>.
\* An optional point (ScaledPoint | null) is << >> or <<point>>.
\* A LineStyle is a record [smoothing, tension]; an absent smoothing is "".
\* ------------------------------------------------------------------------

\* prev || current
PointOr(optional, fallback) == IF optional = << >> THEN fallback ELSE optional[1]

calculateBezierControlPoints(prev, current, next, following, tension) ==
  LET prevPoint == PointOr(prev, current)
      followingPoint == PointOr(following, next)
      tangentX == RMul(RSub(followingPoint.x, prevPoint.x), tension)
      tangentY == RMul(RSub(followingPoint.y, prevPoint.y), tension)
      k == Rat(3, 10)
  IN  [cp1 |-> [x |-> RAdd(current.x, RMul(tangentX, k)),
                y |-> RAdd(current.y, RMul(tangentY, k))],
       cp2 |-> [x |-> RSub(next.x, RMul(tangentX, k)),
                y |-> RSub(next.y, RMul(tangentY, k))]]

calculateCatmullRomControlPoints(p0, p1, p2, p3, tension) ==
  LET d == RMul(I(6), tension)
  IN  [cp1 |-> [x |-> RAdd(p1.x, RDiv(RSub(p2.x, p0.x), d)),
                y |-> RAdd(p1.y, RDiv(RSub(p2.y, p0.y), d))],
       cp2 |-> [x |-> RSub(p2.x, RDiv(RSub(p3.x, p1.x), d)),
                y |-> RSub(p2.y, RDiv(RSub(p3.y, p1.y), d))]]

calculateCardinalControlPoints(p0, p1, p2, p3, tension) ==
  [cp1 |-> [x |-> RAdd(p1.x, RDiv(RMul(tension, RSub(p2.x, p0.x)), I(6))),
            y |-> RAdd(p1.y, RDiv(RMul(tension, RSub(p2.y, p0.y)), I(6)))],
   cp2 |-> [x |-> RSub(p2.x, RDiv(RMul(tension, RSub(p3.x, p1.x)), I(6))),
            y |-> RSub(p2.y, RDiv(RMul(tension, RSub(p3.y, p1.y)), I(6)))]]

MoveTo(point) == <<"M", point.x, point.y>>

LineTo(point) == <<"L", point.x, point.y>>

CurveTo(controlPoints, point) ==
  <<"C", controlPoints.cp1.x, controlPoints.cp1.y,
         controlPoints.cp2.x, controlPoints.cp2.y, point.x, point.y>>

\* the control points of the curve that reaches sortedData[i + 1] (i 0-based)
ControlPointsAt(sortedData, i, smoothing, tension) ==
  LET current == sortedData[i + 1]
      prev == sortedData[i]
      prevPrev == IF i >= 2 THEN <<sortedData[i - 1]>> ELSE << >>
      next == IF i < Len(sortedData) - 1 THEN <<sortedData[i + 2]>> ELSE << >>
  IN  IF smoothing = "bezier"
        THEN calculateBezierControlPoints(prevPrev, prev, current, next, tension)
      ELSE IF smoothing = "catmull-rom" /\ prevPrev # << >> /\ next # << >>
        THEN calculateCatmullRomControlPoints(prevPrev[1], prev, current, next[1], tension)
      ELSE IF smoothing = "cardinal" /\ prevPrev # << >> /\ next # << >>
        THEN calculateCardinalControlPoints(prevPrev[1], prev, current, next[1], tension)
      ELSE calculateBezierControlPoints(prevPrev, prev, current, next, tension)

\* the instruction generateSmoothPath appends for sortedData[i + 1]
SmoothStep(sortedData, gapIndices, smoothing, tension, i) ==
  IF (i - 1) \in gapIndices THEN MoveTo(sortedData[i + 1])
  ELSE IF smoothing = "none" THEN LineTo(sortedData[i + 1])
  ELSE CurveTo(ControlPointsAt(sortedData, i, smoothing, tension), sortedData[i + 1])

generateSmoothPath(sortedData, gapIndices, smoothing, tension) ==
  [k \in 1..Len(sortedData) |->
     IF k = 1 THEN MoveTo(sortedData[1])
     ELSE SmoothStep(sortedData, gapIndices, smoothing, tension, k - 1)]

\* a linear loop that draws through the gaps, to compare with LinearStep
LinearStepThroughGaps(sortedData, gapIndices, i) ==
  IF i = 0 THEN MoveTo(sortedData[1]) ELSE LineTo(sortedData[i + 1])

\* the instruction the linear loop of generatePath appends for sortedData[i + 1]
LinearStep(sortedData, gapIndices, i) ==
  IF i = 0 THEN MoveTo(sortedData[1])
  ELSE IF (i - 1) \in gapIndices THEN MoveTo(sortedData[i + 1])
  ELSE LineTo(sortedData[i + 1])

\* one point put into a sequence ascending in originalX, after its equals
RECURSIVE InsertByOriginalX(_, _)
InsertByOriginalX(sorted, p) ==
  IF sorted = << >> THEN <<p>>
  ELSE IF RLt(p.originalX, Head(sorted).originalX) THEN <<p>> \o sorted
  ELSE <<Head(sorted)>> \o InsertByOriginalX(Tail(sorted), p)

RECURSIVE SortFrom(_, _, _)
SortFrom(points, i, acc) ==
  IF i > Len(points) THEN acc
  ELSE SortFrom(points, i + 1, InsertByOriginalX(acc, points[i]))

\* the points left in the order given, to compare with SortByOriginalX
KeepInputOrder(scaledData) == scaledData

\* [...scaledData].sort((a, b) => a.originalX - b.originalX), a stable sort
SortByOriginalX(scaledData) == SortFrom(scaledData, 1, << >>)

\* new Set(detectedGaps.map(gap => gap.startIndex)), empty unless gaps.enabled
GapIndicesOf(sortedData, g) ==
  IF g.enabled
    THEN LET detectedGaps ==
               detectGaps([k \in 1..Len(sortedData) |-> sortedData[k].originalX],
                          g.threshold)
         IN  {detectedGaps[k].startIndex : k \in 1..Len(detectedGaps)}
    ELSE {}

\* lineStyle?.smoothing || 'none'
SmoothingOf(style) == IF style.smoothing = "" THEN "none" ELSE style.smoothing

\* lineStyle?.tension || 0.3
TensionOf(style) ==
  IF style.tension = Undefined \/ style.tension = I(0) THEN Rat(3, 10)
  ELSE style.tension

\* a single point drawn as a short line, to compare with PointMarker
PointMarkerAsLine(point) ==
  << <<"M", RSub(point.x, I(1)), point.y>>,
     <<"L", RAdd(point.x, I(1)), point.y>> >>

\* the single-point marker: M (x - 1) y A 1 1 0 1 0 (x + 1) y
PointMarker(point) ==
  << <<"M", RSub(point.x, I(1)), point.y>>,
     <<"A", I(1), I(1), I(0), I(1), I(0), RAdd(point.x, I(1)), point.y>> >>

generatePath(scaledData, g, style) ==
  IF Len(scaledData) = 0 THEN << >>
  ELSE IF Len(scaledData) = 1 THEN PointMarker(scaledData[1])
  ELSE LET sortedData == SortByOriginalX(scaledData)
           gapIndices == GapIndicesOf(sortedData, g)
           smoothing == SmoothingOf(style)
           tension == TensionOf(style)
       IN  IF smoothing = "none"
             THEN [k \in 1..Len(sortedData) |-> LinearStep(sortedData, gapIndices, k - 1)]
             ELSE generateSmoothPath(sortedData, gapIndices, smoothing, tension)

\* generateGapPath(scaledData, gap)
generateGapPath(scaledData, gap) ==
  IF gap.startIndex >= Len(scaledData) \/ gap.endIndex >= Len(scaledData)
  THEN << >>
  ELSE <<MoveTo(scaledData[gap.startIndex + 1]),
         LineTo(scaledData[gap.endIndex + 1])>>

\* the gapPaths of the LineRenderer: a dashed path for every gap detectGaps
\* finds in the originalX of scaledData
LineRendererGapPaths(scaledData, g) ==
  IF ~g.enabled \/ Len(scaledData) < 2 THEN << >>
  ELSE LET detectedGaps ==
             detectGaps([k \in 1..Len(scaledData) |-> scaledData[k].originalX],
                        g.threshold)
       IN  [k \in 1..Len(detectedGaps) |->
              generateGapPath(scaledData, detectedGaps[k])]

\* ------------------------------------------------------------------------
\* Interpolation (hooks/useInterpolation)
\*
\* A search result is << >> (null) or <<[exact, lower, upper]>> with 0-based
\* indices, exact being << >> (undefined) or <<index>>; an interpolated
\* value is << >> (null) or <<[x, y, index]>>.
\* ------------------------------------------------------------------------

\* Math.abs
RAbs(a) == IF RLt(a, I(0)) THEN RNeg(a) ELSE a

\* the exact-match distance of the search: Math.abs(point.x - xPosition) < 0.5
ExactMatchEpsilon == Rat(1, 2)

IsExactMatch(point, xPosition) ==
  RLt(RAbs(RSub(point.x, xPosition)), ExactMatchEpsilon)

\* the while loop of the search
RECURSIVE SearchLoop(_, _, _, _)
SearchLoop(scaledData, xPosition, left, right) ==
  IF left > right
    THEN [exact |-> << >>,
          lower |-> IF right > 0 THEN right ELSE 0,
          upper |-> IF left < Len(scaledData) - 1 THEN left ELSE Len(scaledData) - 1]
  ELSE LET mid == (left + right) \div 2
           point == scaledData[mid + 1]
       IN  IF IsExactMatch(point, xPosition)
             THEN [exact |-> <<mid>>, lower |-> mid, upper |-> mid]
           ELSE IF RLt(point.x, xPosition)
             THEN SearchLoop(scaledData, xPosition, mid + 1, right)
           ELSE SearchLoop(scaledData, xPosition, left, mid - 1)

\* a search that tests the last point before the first, to compare with
\* InterpolationSearch
InterpolationSearchLastFirst(scaledData, xPosition) ==
  LET right == Len(scaledData) - 1
  IN  IF Len(scaledData) = 0 THEN << >>
      ELSE IF RGe(xPosition, scaledData[right + 1].x)
        THEN <<[exact |-> <<right>>, lower |-> right, upper |-> right]>>
      ELSE IF RLe(xPosition, scaledData[1].x)
        THEN <<[exact |-> <<0>>, lower |-> 0, upper |-> 0]>>
      ELSE <<SearchLoop(scaledData, xPosition, 0, right)>>

\* useInterpolation's binarySearch(xPosition)
InterpolationSearch(scaledData, xPosition) ==
  LET right == Len(scaledData) - 1
  IN  IF Len(scaledData) = 0 THEN << >>
      ELSE IF RLe(xPosition, scaledData[1].x)
        THEN <<[exact |-> <<0>>, lower |-> 0, upper |-> 0]>>
      ELSE IF RGe(xPosition, scaledData[right + 1].x)
        THEN <<[exact |-> <<right>>, lower |-> right, upper |-> right]>>
      ELSE <<SearchLoop(scaledData, xPosition, 0, right)>>

\* the screen position of the point, to compare with ValuesOf
ScreenValuesOf(point) == [x |-> point.x, y |-> point.y, index |-> point.index]

\* {x: point.originalX, y: point.originalY, index: point.index}
ValuesOf(point) == [x |-> point.originalX, y |-> point.originalY, index |-> point.index]

\* an index chosen by ratio <= 0.5, to compare with InterpolateBetween
InterpolateBetweenInclusive(p1, p2, xPosition) ==
  LET ratio == RDiv(RSub(xPosition, p1.x), RSub(p2.x, p1.x))
  IN  [x |-> RAdd(p1.originalX, RMul(RSub(p2.originalX, p1.originalX), ratio)),
       y |-> RAdd(p1.originalY, RMul(RSub(p2.originalY, p1.originalY), ratio)),
       index |-> IF RLe(ratio, Rat(1, 2)) THEN p1.index ELSE p2.index]

\* linear interpolation between two points
InterpolateBetween(p1, p2, xPosition) ==
  LET ratio == RDiv(RSub(xPosition, p1.x), RSub(p2.x, p1.x))
  IN  [x |-> RAdd(p1.originalX, RMul(RSub(p2.originalX, p1.originalX), ratio)),
       y |-> RAdd(p1.originalY, RMul(RSub(p2.originalY, p1.originalY), ratio)),
       index |-> IF RLt(ratio, Rat(1, 2)) THEN p1.index ELSE p2.index]

interpolateAtX(scaledData, xPosition) ==
  LET result == InterpolationSearch(scaledData, xPosition)
  IN  IF result = << >> THEN << >>
      ELSE IF result[1].exact # << >>
        THEN <<ValuesOf(scaledData[result[1].exact[1] + 1])>>
      ELSE LET p1 == scaledData[result[1].lower + 1]
               p2 == scaledData[result[1].upper + 1]
           IN  IF result[1].lower = result[1].upper THEN <<ValuesOf(p1)>>
               ELSE <<InterpolateBetween(p1, p2, xPosition)>>

\* ------------------------------------------------------------------------
\* The generic binary search of utils/types.ts
\* ------------------------------------------------------------------------

\* Numbers of the search are IEEE-754 doubles that lie within a few units of
\* 2^-53 of a multiple of one half: Double(half, ulps) is the number
\* half / 2 + ulps * 2^-53.
Double(half, ulps) == [half |-> half, ulps |-> ulps]

RECURSIVE Pow2Floor(_)
\* the greatest power of two that is no greater than n (n >= 1)
Pow2Floor(n) == IF n < 2 THEN 1 ELSE 2 * Pow2Floor(n \div 2)

\* the distance, in units of 2^-53, between the neighbouring doubles just
\* above (upward) or just below the number half / 2
SpacingAt(half, upward) ==
  IF half < 2 THEN 1
  ELSE LET p == Pow2Floor(half \div 2)
       IN  IF ~upward /\ half = 2 * p THEN p ELSE 2 * p

\* half / 2 + ulps * 2^-53 is a double
IsDouble(half, ulps) == ulps % SpacingAt(half, ulps > 0) = 0

\* a < b and a <= b on such numbers
DLt(a, b) == a.half < b.half \/ (a.half = b.half /\ a.ulps < b.ulps)

DLe(a, b) == a = b \/ DLt(a, b)

\* Number.EPSILON, 2^-52, in units of 2^-53
NUMBER_EPSILON == 2

\* Math.abs(a - b) < Number.EPSILON
WithinEpsilon(a, b) ==
  /\ a.half = b.half
  /\ a.ulps - b.ulps < NUMBER_EPSILON
  /\ b.ulps - a.ulps < NUMBER_EPSILON

\* the value extractor handed to the search
getValue(item) == item.value

Max2(a, b) == IF a > b THEN a ELSE b

Min2(a, b) == IF a < b THEN a ELSE b

\* MUTANT of NotFound: the bounds taken from the wrong ends of the loop
NotFoundSwapped(array, left, right) ==
  [exact |-> << >>,
   lower |-> Max2(0, left),
   upper |-> Min2(Len(array) - 1, right)]

\* the result after the loop ran out
NotFound(array, left, right) ==
  [exact |-> << >>,
   lower |-> Max2(0, right),
   upper |-> Min2(Len(array) - 1, left)]

RECURSIVE BinarySearchLoop(_, _, _, _)
\* the while loop, with 0-based indices
BinarySearchLoop(array, target, left, right) ==
  IF left > right THEN NotFound(array, left, right)
  ELSE LET mid == (left + right) \div 2
           midValue == getValue(array[mid + 1])
       IN  IF WithinEpsilon(midValue, target)
           THEN [exact |-> <<mid>>, lower |-> mid, upper |-> mid]
           ELSE IF DLt(midValue, target)
                THEN BinarySearchLoop(array, target, mid + 1, right)
                ELSE BinarySearchLoop(array, target, left, mid - 1)

\* binarySearch(array, target, getValue); exact is << >> when the result has
\* none
binarySearch(array, target) ==
  LET right == Len(array) - 1
  IN  IF Len(array) = 0 THEN [exact |-> << >>, lower |-> 0, upper |-> 0]
      ELSE IF DLe(target, getValue(array[1]))
           THEN [exact |-> <<0>>, lower |-> 0, upper |-> 0]
      ELSE IF DLe(getValue(array[right + 1]), target)
           THEN [exact |-> <<right>>, lower |-> right, upper |-> right]
      ELSE BinarySearchLoop(array, target, 0, right)

\* ------------------------------------------------------------------------
\* Validation (utils/types.ts)
\* ------------------------------------------------------------------------

\* The values a caller can pass where a series is expected.  A number carries
\* a rational, NaN or an infinity; an object carries its x and y properties,
\* JsUndefined standing for a property it lacks.
JsUndefined == [kind |-> "undefined"]

JsNull == [kind |-> "null"]

JsNumber(r) == [kind |-> "number", value |-> r]

JsString(s) == [kind |-> "string", text |-> s]

JsArray(items) == [kind |-> "array", items |-> items]

JsObject(vx, vy) == [kind |-> "object", x |-> vx, y |-> vy]

PlusInfinity == <<1, 0>>

MinusInfinity == <<-1, 0>>

\* !v
IsFalsy(v) ==
  \/ v.kind \in {"undefined", "null"}
  \/ v.kind = "number" /\ (v.value = NaN \/ v.value[1] = 0)
  \/ v.kind = "string" /\ v.text = ""

\* v == null
IsNullish(v) == v.kind \in {"undefined", "null"}

\* typeof v
TypeOf(v) == IF v.kind \in {"null", "array"} THEN "object" ELSE v.kind

\* Array.isArray(v)
IsArray(v) == v.kind = "array"

\* isFinite(v) of a number
isFinite(v) == IsFinite(v.value)

\* no error was thrown
NoError == << >>

\* throw new Error(message)
Throw(message) == <<message>>

\* MUTANT of ElementError: the isFinite test made before the typeof test
ElementErrorFiniteFirst(vx, vy, i) ==
  IF IsNullish(vx) \/ IsNullish(vy)
  THEN Throw("Data point at index " \o ToString(i)
             \o " contains null or undefined values")
  ELSE IF (TypeOf(vx) = "number" /\ ~isFinite(vx))
          \/ (TypeOf(vy) = "number" /\ ~isFinite(vy))
  THEN Throw("Data point at index " \o ToString(i)
             \o " contains invalid values (NaN or Infinity)")
  ELSE IF TypeOf(vx) # "number" \/ TypeOf(vy) # "number"
  THEN Throw("Data point at index " \o ToString(i)
             \o " contains non-numeric values")
  ELSE NoError

\* the three tests of the loop body on the point at index i
ElementError(vx, vy, i) ==
  IF IsNullish(vx) \/ IsNullish(vy)
  THEN Throw("Data point at index " \o ToString(i)
             \o " contains null or undefined values")
  ELSE IF TypeOf(vx) # "number" \/ TypeOf(vy) # "number"
  THEN Throw("Data point at index " \o ToString(i)
             \o " contains non-numeric values")
  ELSE IF ~isFinite(vx) \/ ~isFinite(vy)
  THEN Throw("Data point at index " \o ToString(i)
             \o " contains invalid values (NaN or Infinity)")
  ELSE NoError

RECURSIVE ValidatePointsFrom(_, _, _)
\* the loop over the points, from the 0-based index i on
ValidatePointsFrom(xs, ys, i) ==
  IF i >= Len(xs) THEN NoError
  ELSE IF ElementError(xs[i + 1], ys[i + 1], i) # NoError
       THEN ElementError(xs[i + 1], ys[i + 1], i)
       ELSE ValidatePointsFrom(xs, ys, i + 1)

\* validateData(data): NoError when it returns, the thrown message otherwise
validateData(d) ==
  IF IsFalsy(d) THEN Throw("Chart data is required")
  ELSE IF IsFalsy(d.x) \/ IsFalsy(d.y)
  THEN Throw("Chart requires both x and y data arrays")
  ELSE IF ~IsArray(d.x) \/ ~IsArray(d.y)
  THEN Throw("X and Y data must be arrays")
  ELSE IF Len(d.x.items) # Len(d.y.items)
  THEN Throw("X and Y arrays must have the same length. Got x: "
             \o ToString(Len(d.x.items)) \o ", y: "
             \o ToString(Len(d.y.items)))
  ELSE IF Len(d.x.items) = 0
  THEN Throw("Chart requires at least one data point")
  ELSE ValidatePointsFrom(d.x.items, d.y.items, 0)

\* validateDimensions(width, height)
validateDimensions(width, height) ==
  IF TypeOf(width) # "number" \/ TypeOf(height) # "number"
  THEN Throw("Width and height must be numbers")
  ELSE IF ~isFinite(width) \/ ~isFinite(height)
  THEN Throw("Width and height must be finite numbers")
  ELSE IF RLe(width.value, I(0)) \/ RLe(height.value, I(0))
  THEN Throw("Width and height must be positive numbers")
  ELSE NoError

\* a lineStyle object; JsUndefined stands for a property it lacks
JsLineStyle(width, opacity) ==
  [kind |-> "object", width |-> width, opacity |-> opacity]

\* validateLineStyle(lineStyle)
validateLineStyle(style) ==
  IF IsFalsy(style) THEN NoError
  ELSE IF style.width # JsUndefined
          /\ (TypeOf(style.width) # "number"
              \/ RLe(style.width.value, I(0)))
  THEN Throw("Line width must be a positive number")
  ELSE IF style.opacity # JsUndefined
          /\ (TypeOf(style.opacity) # "number"
              \/ RLt(style.opacity.value, I(0))
              \/ RGt(style.opacity.value, I(1)))
  THEN Throw("Line opacity must be a number between 0 and 1")
  ELSE NoError

\* an indicator object; JsUndefined stands for a property it lacks
JsIndicator(vx, width) == [kind |-> "object", x |-> vx, width |-> width]

\* the callback of validateIndicators on the indicator at index
IndicatorError(indicator, index) ==
  IF TypeOf(indicator.x) # "number" \/ ~isFinite(indicator.x)
  THEN Throw("Indicator at index " \o ToString(index)
             \o " has invalid x value")
  ELSE IF indicator.width # JsUndefined
          /\ (TypeOf(indicator.width) # "number"
              \/ RLe(indicator.width.value, I(0)))
  THEN Throw("Indicator at index " \o ToString(index) \o " has invalid width")
  ELSE NoError

RECURSIVE ValidateIndicatorsFrom(_, _)
\* indicators.forEach, from the 0-based index on
ValidateIndicatorsFrom(indicators, index) ==
  IF index >= Len(indicators) THEN NoError
  ELSE IF IndicatorError(indicators[index + 1], index) # NoError
       THEN IndicatorError(indicators[index + 1], index)
       ELSE ValidateIndicatorsFrom(indicators, index + 1)

\* validateIndicators(indicators, xRange) on an array of indicators; xRange
\* feeds a warning only
validateIndicators(indicators) == ValidateIndicatorsFrom(indicators, 0)

\* PERFORMANCE_CONSTANTS.MAX_DATA_POINTS
MAX_DATA_POINTS == 50

\* `${n}` of a number that is an integer, NaN or an infinity
NumberText(r) ==
  IF r = NaN THEN "NaN"
  ELSE IF r = PlusInfinity THEN "Infinity"
  ELSE IF r = MinusInfinity THEN "-Infinity"
  ELSE ToString(r[1])

\* the numbers held by an array of numbers
NumbersOf(items) == [i \in 1..Len(items) |-> items[i].value]

\* Math.max(...items) - Math.min(...items) === 0
HasZeroRange(items) ==
  REq(RSub(RMax(NumbersOf(items)), RMin(NumbersOf(items))), I(0))

\* validateData comes as far as its performance check
ReachesPointChecks(d) ==
  /\ ~IsFalsy(d)
  /\ ~IsFalsy(d.x) /\ ~IsFalsy(d.y)
  /\ IsArray(d.x) /\ IsArray(d.y)
  /\ Len(d.x.items) = Len(d.y.items)
  /\ Len(d.x.items) # 0

\* what validateData passes to console.warn, in order
DataWarnings(d) ==
  IF ~ReachesPointChecks(d) THEN << >>
  ELSE LET n == Len(d.x.items)
           performance ==
             IF n > MAX_DATA_POINTS
             THEN <<"Chart has " \o ToString(n)
                    \o " data points. Performance may be affected above "
                    \o ToString(MAX_DATA_POINTS) \o " points.">>
             ELSE << >>
       IN  IF ValidatePointsFrom(d.x.items, d.y.items, 0) # NoError
           THEN performance
           ELSE performance
                \o (IF HasZeroRange(d.x.items) /\ n > 1
                    THEN <<"All X values are identical. Chart may not display properly.">>
                    ELSE << >>)
                \o (IF HasZeroRange(d.y.items) /\ n > 1
                    THEN <<"All Y values are identical. Chart will display as a flat line.">>
                    ELSE << >>)

\* MUTANT of IsVerySmall: a dimension of exactly 50 counted as small
IsVerySmallInclusive(width, height) ==
  RLe(width.value, I(50)) \/ RLe(height.value, I(50))

\* width < 50 || height < 50
IsVerySmall(width, height) ==
  RLt(width.value, I(50)) \/ RLt(height.value, I(50))

\* what validateDimensions passes to console.warn
DimensionWarnings(width, height) ==
  IF validateDimensions(width, height) = NoError /\ IsVerySmall(width, height)
  THEN <<"Chart dimensions are very small (" \o NumberText(width.value)
         \o "x" \o NumberText(height.value)
         \o "). Minimum recommended size is 50x50.">>
  ELSE << >>

\* the warning of validateIndicators for the indicator at index
OutsideRangeWarning(indicator, index, xRange) ==
  "Indicator at index " \o ToString(index) \o " (x="
    \o NumberText(indicator.x.value) \o ") is outside data range ("
    \o NumberText(xRange.min) \o "-" \o NumberText(xRange.max) \o ")"

RECURSIVE IndicatorWarningsFrom(_, _, _)
\* what indicators.forEach passes to console.warn from the 0-based index on,
\* up to the callback that throws
IndicatorWarningsFrom(indicators, xRange, index) ==
  IF index >= Len(indicators) THEN << >>
  ELSE LET indicator == indicators[index + 1]
           xIsSound == TypeOf(indicator.x) = "number" /\ isFinite(indicator.x)
           warning ==
             IF xIsSound /\ (RLt(indicator.x.value, xRange.min)
                             \/ RGt(indicator.x.value, xRange.max))
             THEN <<OutsideRangeWarning(indicator, index, xRange)>>
             ELSE << >>
       IN  IF IndicatorError(indicator, index) # NoError THEN warning
           ELSE warning \o IndicatorWarningsFrom(indicators, xRange, index + 1)

\* what validateIndicators(indicators, xRange) passes to console.warn
IndicatorWarnings(indicators, xRange) ==
  IndicatorWarningsFrom(indicators, xRange, 0)

\* ------------------------------------------------------------------------
\* The Chart component's render, from validation to what it returns
\* ------------------------------------------------------------------------

\* ...v can be spread
IsIterable(v) == v.kind \in {"array", "string"}

\* useDataScaling throws a TypeError: it destructures data, spreads x and y
\* into Math.min and calls x.map
ScalingThrows(d) ==
  \/ IsNullish(d)
  \/ ~IsIterable(d.x)
  \/ ~IsIterable(d.y)
  \/ d.x.kind # "array"

\* the geometry steps of a render
GeometrySteps == {"scaling", "lookup", "interpolation", "path"}

\* One render of the Chart with the props p: what validateData gave, the
\* geometry steps that ran on the props, the error that left the render and
\* what the render returned.  The values the steps compute are those of the
\* sections above.
ChartRender(p) ==
  LET error == validateData(p.data)
  IN  IF ScalingThrows(p.data)
      THEN [validationError |-> error, geometryRan |-> {"scaling"},
            thrown |-> Throw("TypeError"), rendered |-> "nothing"]
      ELSE IF error # NoError
      THEN [validationError |-> error,
            geometryRan |-> {"scaling", "lookup", "interpolation"},
            thrown |-> NoError, rendered |-> "error state"]
      ELSE [validationError |-> error, geometryRan |-> GeometrySteps,
            thrown |-> NoError, rendered |-> "chart"]

\* ------------------------------------------------------------------------
\* The chart dimensions hook
\* ------------------------------------------------------------------------

\* DEFAULT_STYLES.padding
DefaultPadding ==
  [top |-> I(20), right |-> I(20), bottom |-> I(40), left |-> I(60)]

\* An object prop of the hook: whether it was passed at all and which object
\* it is (two objects are one object when their refs are equal).  A padding
\* holds each side as << >> (not supplied) or <<value>>; an axes holds for x
\* and y "shown", "hidden" or "absent".
NoPadding ==
  [given |-> FALSE, ref |-> 0,
   top |-> << >>, right |-> << >>, bottom |-> << >>, left |-> << >>]

NoAxes == [given |-> FALSE, ref |-> 0, x |-> "absent", y |-> "absent"]

\* MUTANT of calculateDynamicPadding: the global default on every side
calculateGlobalPadding(axes) == DefaultPadding

\* calculateDynamicPadding(axes)
calculateDynamicPadding(axes) ==
  [top |-> DefaultPadding.top,
   right |-> DefaultPadding.right,
   left |-> IF axes.y = "shown" THEN I(60) ELSE I(20),
   bottom |-> IF axes.x = "shown" THEN I(40) ELSE I(20)]

\* one side of {...dynamicPadding, ...padding}
Spread(default, explicit) == IF explicit = << >> THEN default ELSE explicit[1]

\* {...dynamicPadding, ...padding}
ResolvedPadding(padding, axes) ==
  LET dynamicPadding == calculateDynamicPadding(axes)
  IN  [top |-> Spread(dynamicPadding.top, padding.top),
       right |-> Spread(dynamicPadding.right, padding.right),
       bottom |-> Spread(dynamicPadding.bottom, padding.bottom),
       left |-> Spread(dynamicPadding.left, padding.left)]

\* the function memoized by useChartDimensions: the chart area and the
\* resolved padding
ComputeDimensions(width, height, padding, axes) ==
  LET resolvedPadding == ResolvedPadding(padding, axes)
  IN  [chartArea |->
         [x |-> resolvedPadding.left,
          y |-> resolvedPadding.top,
          width |-> RSub(RSub(width, resolvedPadding.left),
                         resolvedPadding.right),
          height |-> RSub(RSub(height, resolvedPadding.top),
                          resolvedPadding.bottom)],
       padding |-> resolvedPadding]

\* what that function passes to console.warn
AreaWarnings(chartArea) ==
  IF RLe(chartArea.width, I(0)) \/ RLe(chartArea.height, I(0))
  THEN <<"Chart area is too small. Check dimensions and padding.">>
  ELSE << >>

\* one entry of the dependency array, as Object.is compares it: an object by
\* its ref, undefined as itself
DepOf(object) == IF object.given THEN <<"object", object.ref>>
                 ELSE <<"undefined", 0>>

\* [width, height, padding, axes]
DepsOf(p) == <<p.width, p.height, DepOf(p.padding), DepOf(p.axes)>>

\* useChartDimensions(p) on a hook whose last dependencies and result are
\* memoDeps and memoized: useMemo returns the memoized object when every
\* dependency is the same, and calls the function for a new object otherwise
useChartDimensions(p, deps, memoized) ==
  IF DepsOf(p) = deps THEN [result |-> memoized, warnings |-> << >>]
  ELSE LET computed == ComputeDimensions(p.width, p.height, p.padding, p.axes)
       IN  [result |-> [ref |-> 1 - memoized.ref,
                        chartArea |-> computed.chartArea,
                        padding |-> computed.padding],
            warnings |-> AreaWarnings(computed.chartArea)]

\* ------------------------------------------------------------------------
\* Gesture handling (hooks/useGestureHandling)
\*
\* The props of the hook are a record [lookupTable, enabled, chartArea,
\* callbacks]; callbacks is the set of the names of the callback props that
\* are supplied.  The shared values are a record [dragX, dragY, isActive];
\* a worklet returns the shared values it leaves and the calls it posted
\* with runOnJS, in order.
\* ------------------------------------------------------------------------

\* getInitialPosition(): the final entry, or the centre without data
getInitialPosition(p) ==
  IF Len(p.lookupTable) > 0
    THEN LET finalEntry == p.lookupTable[Len(p.lookupTable)]
         IN  [x |-> finalEntry.scaledX, y |-> finalEntry.scaledY]
  ELSE [x |-> RAdd(p.chartArea.x, RDiv(p.chartArea.width, I(2))),
        y |-> RAdd(p.chartArea.y, RDiv(p.chartArea.height, I(2)))]

\* the shared values after useSharedValue(initialPosition.x), .. (false)
InitialSharedValues(p) ==
  [dragX |-> getInitialPosition(p).x, dragY |-> getInitialPosition(p).y,
   isActive |-> FALSE]

\* MUTANT of handleEvent: the position follows the touch whether or not the
\* callback is supplied
handleEventUnguarded(p, shared, eventX, callback) ==
  LET k == findCoordinateAtGestureX(eventX, p.lookupTable)
  IN  IF k = 0 THEN [shared |-> shared, calls |-> << >>]
      ELSE LET foundEntry == p.lookupTable[k]
           IN  [shared |-> [shared EXCEPT !.dragX = foundEntry.scaledX,
                                          !.dragY = foundEntry.scaledY],
                calls |-> IF callback \in p.callbacks
                            THEN <<[callback |-> callback,
                                    x |-> foundEntry.originalX,
                                    y |-> foundEntry.originalY,
                                    index |-> foundEntry.dataIndex]>>
                          ELSE << >>]

\* handleEvent(event, callback): callback is the name of the callback prop
\* handed over, eventX is event.x
handleEvent(p, shared, eventX, callback) ==
  IF callback \notin p.callbacks THEN [shared |-> shared, calls |-> << >>]
  ELSE LET k == findCoordinateAtGestureX(eventX, p.lookupTable)
       IN  IF k = 0 THEN [shared |-> shared, calls |-> << >>]
           ELSE LET foundEntry == p.lookupTable[k]
                IN  [shared |-> [shared EXCEPT !.dragX = foundEntry.scaledX,
                                               !.dragY = foundEntry.scaledY],
                     calls |-> <<[callback |-> callback,
                                  x |-> foundEntry.originalX,
                                  y |-> foundEntry.originalY,
                                  index |-> foundEntry.dataIndex]>>]

\* Gesture.Pan().onBegin: isActive.value = true; handleEvent(e, onDragStart)
PanOnBegin(p, shared, eventX) ==
  handleEvent(p, [shared EXCEPT !.isActive = TRUE], eventX, "onDragStart")

\* Gesture.Pan().onUpdate: handleEvent(e, onDrag)
PanOnUpdate(p, shared, eventX) == handleEvent(p, shared, eventX, "onDrag")

\* Gesture.Pan().onEnd: isActive.value = false; handleEvent(e, onDragEnd)
PanOnEnd(p, shared, eventX) ==
  handleEvent(p, [shared EXCEPT !.isActive = FALSE], eventX, "onDragEnd")

\* Gesture.Tap().onStart: handleEvent(e, onTap); isActive.value = true;
\* isActive.value = false
TapOnStart(p, shared, eventX) ==
  LET handled == handleEvent(p, shared, eventX, "onTap")
      raised == [handled.shared EXCEPT !.isActive = TRUE]
  IN  [shared |-> [raised EXCEPT !.isActive = FALSE], calls |-> handled.calls]

\* ------------------------------------------------------------------------
\* The chart: its props and the geometry the render derives from them
\* ------------------------------------------------------------------------

VARIABLES
  data,         \* prop: the series {x, y}
  chartArea,    \* the drawable rectangle
  gaps,         \* prop: the GapConfig
  yRangeProp,   \* the yRange override given to useDataScaling
  lineStyle,    \* prop: the LineStyle
  scaling,      \* what useDataScaling returned
  lookupTable,  \* what useCoordinateLookup returned
  mainPath      \* the LineRenderer's path

chartVars ==
  <<data, chartArea, gaps, yRangeProp, lineStyle, scaling, lookupTable, mainPath>>

\* a direct use of the gap detector
VARIABLES
  timestamps,        \* the ascending x values handed to the detector
  threshold,         \* the threshold argument (Undefined: the default)
  gapsFound,         \* what detectGaps returned
  expectedInterval   \* what calculateExpectedInterval returned

detectorVars == <<timestamps, threshold, gapsFound, expectedInterval>>

\* a value looked up at a screen position, as the tooltip does
VARIABLES
  queryX,        \* the screen x last asked for (Undefined: none since the render)
  interpolated   \* what interpolateAtX returned for it

interpVars == <<queryX, interpolated>>

\* a direct use of the generic binary search
VARIABLES
  searchArray,    \* the array argument, its items ascending by value
  searchTarget,   \* the target argument
  searchResult    \* what binarySearch returned

searchVars == <<searchArray, searchTarget, searchResult>>

\* a direct use of validateData
VARIABLES
  candidate,   \* the value handed to validateData
  verdict      \* NoError when it returned, the thrown message otherwise

validationVars == <<candidate, verdict>>

\* a Chart rendered with props of any kind
VARIABLES
  props,             \* data, width, height, lineStyle and indicators
  validationError,   \* the Chart's validationError (NoError: null)
  geometryRan,       \* the geometry steps that ran on these props
  thrown,            \* the error that left the render (NoError: none)
  rendered           \* "chart", "error state" or "nothing"

renderVars == <<props, validationError, geometryRan, thrown, rendered>>

\* a direct use of one of the validators, with what it warned about
VARIABLES
  checked,         \* the validator called and its arguments
  checkError,      \* NoError when it returned, the thrown message otherwise
  checkWarnings    \* what it passed to console.warn, in order

advisoryVars == <<checked, checkError, checkWarnings>>

\* a component that calls useChartDimensions on every render
VARIABLES
  hookProps,      \* width, height, padding and axes of the last render
  memoDeps,       \* the dependencies useMemo holds
  dimensions,     \* what the hook returned: an object with chartArea and padding
  areaWarnings    \* what the last render passed to console.warn

dimensionVars == <<hookProps, memoDeps, dimensions, areaWarnings>>

\* a chart's gesture hook and the touch it is handling
VARIABLES
  gestureProps,   \* lookupTable, enabled, chartArea and the callbacks supplied
  dragX,          \* shared value
  dragY,          \* shared value
  isActive,       \* shared value
  event,          \* the event of the gesture library handled last, if any
  calls,          \* the callbacks that event posted with runOnJS
  panState,       \* the pan gesture: "undetermined", "began" or "active"
  tapState        \* the tap gesture: "undetermined", "began" or "failed"

gestureVars ==
  <<gestureProps, dragX, dragY, isActive, event, calls, panState, tapState>>

\* the state of the utilities that are used apart from a chart's geometry
utilityVars ==
  <<searchVars, validationVars, renderVars, advisoryVars, dimensionVars,
    gestureVars>>

\* the state of the chart's geometry
geometryVars == <<chartVars, detectorVars, interpVars>>

\* what a use of one utility leaves alone
searchFrame == <<geometryVars, validationVars, renderVars, advisoryVars,
  dimensionVars, gestureVars>>

validationFrame == <<geometryVars, searchVars, renderVars, advisoryVars,
  dimensionVars, gestureVars>>

renderFrame == <<geometryVars, searchVars, validationVars, advisoryVars,
  dimensionVars, gestureVars>>

advisoryFrame == <<geometryVars, searchVars, validationVars, renderVars,
  dimensionVars, gestureVars>>

dimensionFrame ==
  <<geometryVars, searchVars, validationVars, renderVars, advisoryVars,
    gestureVars>>

gestureFrame ==
  <<geometryVars, searchVars, validationVars, renderVars, advisoryVars,
    dimensionVars>>

vars == <<chartVars, detectorVars, interpVars, utilityVars>>

NoGaps == [enabled |-> FALSE, fixedWidthGaps |-> FALSE,
           threshold |-> Undefined, fixedWidth |-> Undefined]

ProportionalGaps == [NoGaps EXCEPT !.enabled = TRUE]

FixedWidthGaps == [ProportionalGaps EXCEPT !.fixedWidthGaps = TRUE]

\* threshold and fixedWidth both given
TunedFixedWidthGaps ==
  [FixedWidthGaps EXCEPT !.threshold = Rat(3, 2), !.fixedWidth = I(60)]

\* fixedWidthGaps asked for without enabling gap detection
FixedWidthOnly == [NoGaps EXCEPT !.fixedWidthGaps = TRUE]

GapConfigs ==
  {NoGaps, ProportionalGaps, FixedWidthGaps, TunedFixedWidthGaps, FixedWidthOnly}

WideArea == [x |-> I(20), y |-> I(10), width |-> I(260), height |-> I(170)]

NarrowArea == [x |-> I(5), y |-> I(5), width |-> I(40), height |-> I(20)]

ChartAreas == {WideArea, NarrowArea}

\* DEFAULT_STYLES.line: smoothing 'none', tension 0.3
DefaultLineStyle == [smoothing |-> "none", tension |-> Rat(3, 10)]

\* the points a series of the x-focused specifications is drawn from: every
\* x of 0 .. MaxX, its y alternating with x
SamplePoints == {<<px, px % 2>> : px \in 0..MaxX}

\* one render: every memoized hook recomputes from the new props
Render(d, area, g, yr, ls) ==
  /\ data' = d
  /\ chartArea' = area
  /\ gaps' = g
  /\ yRangeProp' = yr
  /\ lineStyle' = ls
  /\ scaling' = useDataScaling(d, area, g, yr)
  /\ lookupTable' = useCoordinateLookup(d, area, scaling'.scaledData)
  /\ mainPath' = generatePath(scaling'.scaledData, g, ls)

\* the first render of a chart of one point
Mounted(p, area, g, yr, ls) ==
  LET d == [x |-> <<I(p[1])>>, y |-> <<I(p[2])>>]
      s == useDataScaling(d, area, g, yr)
  IN  /\ data = d
      /\ chartArea = area
      /\ gaps = g
      /\ yRangeProp = yr
      /\ lineStyle = ls
      /\ scaling = s
      /\ lookupTable = useCoordinateLookup(d, area, s.scaledData)
      /\ mainPath = generatePath(s.scaledData, g, ls)

\* the detector has not been called
DetectorIdle ==
  /\ timestamps = << >>
  /\ threshold = Undefined
  /\ gapsFound = << >>
  /\ expectedInterval = I(0)

\* no value has been looked up since the last render
QueryIdle ==
  /\ queryX = Undefined
  /\ interpolated = << >>

\* a render discards the value looked up before it
ForgetQuery ==
  /\ queryX' = Undefined
  /\ interpolated' = << >>

\* the generic search has been called on nothing
SearchIdle ==
  /\ searchArray = << >>
  /\ searchTarget = Double(0, 0)
  /\ searchResult = binarySearch(<< >>, Double(0, 0))

\* validateData has been called without a series
ValidationIdle ==
  /\ candidate = JsUndefined
  /\ verdict = validateData(JsUndefined)

\* a series of arrays
JsSeries(xs, ys) == JsObject(JsArray(xs), JsArray(ys))

\* props no validator objects to
SoundProps ==
  [data |-> JsSeries(<<JsNumber(I(1)), JsNumber(I(2))>>,
                     <<JsNumber(I(1)), JsNumber(I(2))>>),
   width |-> JsNumber(I(300)),
   height |-> JsNumber(I(200)),
   lineStyle |-> JsUndefined,
   indicators |-> << >>]

\* the Chart rendered p
Rendered(p) ==
  /\ props = p
  /\ validationError = ChartRender(p).validationError
  /\ geometryRan = ChartRender(p).geometryRan
  /\ thrown = ChartRender(p).thrown
  /\ rendered = ChartRender(p).rendered

RenderIdle == Rendered(SoundProps)

\* validateDimensions has been called on sound dimensions
AdvisoryIdle ==
  /\ checked = [validator |-> "validateDimensions",
                args |-> <<JsNumber(I(300)), JsNumber(I(200))>>]
  /\ checkError = NoError
  /\ checkWarnings = << >>

\* the first render of a component that passes only width and height
HookMounted(width, height, padding, axes) ==
  LET p == [width |-> width, height |-> height,
            padding |-> padding, axes |-> axes]
      computed == ComputeDimensions(width, height, padding, axes)
  IN  /\ hookProps = p
      /\ memoDeps = DepsOf(p)
      /\ dimensions = [ref |-> 0, chartArea |-> computed.chartArea,
                       padding |-> computed.padding]
      /\ areaWarnings = AreaWarnings(computed.chartArea)

DimensionIdle == HookMounted(I(300), I(200), NoPadding, NoAxes)

\* the first render of a chart with the gesture hook props p: no touch
GestureMounted(p) ==
  /\ gestureProps = p
  /\ dragX = InitialSharedValues(p).dragX
  /\ dragY = InitialSharedValues(p).dragY
  /\ isActive = InitialSharedValues(p).isActive
  /\ event = << >>
  /\ calls = << >>
  /\ panState = "undetermined"
  /\ tapState = "undetermined"

\* a chart without data and without interaction
GestureIdle ==
  GestureMounted([lookupTable |-> << >>, enabled |-> FALSE,
                  chartArea |-> WideArea, callbacks |-> {}])

UtilitiesIdle ==
  /\ SearchIdle
  /\ ValidationIdle
  /\ RenderIdle
  /\ AdvisoryIdle
  /\ DimensionIdle
  /\ GestureIdle

\* a chart of one point on which nothing was looked up
GeometryIdle ==
  /\ Mounted(<<0, 0>>, WideArea, NoGaps, << >>, DefaultLineStyle)
  /\ DetectorIdle
  /\ QueryIdle

\* the state a use of one utility starts in, its own variables apart
SearchFrameIdle ==
  /\ GeometryIdle
  /\ ValidationIdle
  /\ RenderIdle
  /\ AdvisoryIdle
  /\ DimensionIdle
  /\ GestureIdle

ValidationFrameIdle ==
  /\ GeometryIdle
  /\ SearchIdle
  /\ RenderIdle
  /\ AdvisoryIdle
  /\ DimensionIdle
  /\ GestureIdle

RenderFrameIdle ==
  /\ GeometryIdle
  /\ SearchIdle
  /\ ValidationIdle
  /\ AdvisoryIdle
  /\ DimensionIdle
  /\ GestureIdle

AdvisoryFrameIdle ==
  /\ GeometryIdle
  /\ SearchIdle
  /\ ValidationIdle
  /\ RenderIdle
  /\ DimensionIdle
  /\ GestureIdle

DimensionFrameIdle ==
  /\ GeometryIdle
  /\ SearchIdle
  /\ ValidationIdle
  /\ RenderIdle
  /\ AdvisoryIdle
  /\ GestureIdle

GestureFrameIdle ==
  /\ GeometryIdle
  /\ SearchIdle
  /\ ValidationIdle
  /\ RenderIdle
  /\ AdvisoryIdle
  /\ DimensionIdle

\* the data prop changes: one more point at the end of the series
AppendPoint(points, maxLen) ==
  /\ Len(data.x) < maxLen
  /\ \E p \in points :
       Render([x |-> Append(data.x, I(p[1])), y |-> Append(data.y, I(p[2]))],
              chartArea, gaps, yRangeProp, lineStyle)
  /\ ForgetQuery
  /\ UNCHANGED <<detectorVars, utilityVars>>

\* the chart is resized
SetChartArea ==
  /\ \E area \in ChartAreas \ {chartArea} :
       Render(data, area, gaps, yRangeProp, lineStyle)
  /\ ForgetQuery
  /\ UNCHANGED <<detectorVars, utilityVars>>

\* Charts of every gap configuration, over series in any x order
Init ==
  /\ \E p \in SamplePoints, g \in GapConfigs :
       Mounted(p, WideArea, g, << >>, DefaultLineStyle)
  /\ DetectorIdle
  /\ QueryIdle
  /\ UtilitiesIdle

Next ==
  \/ AppendPoint(SamplePoints, MaxPoints)
  \/ SetChartArea

Spec == Init /\ [][Next]_vars

\* the sample points that keep the series ascending in x
AscendingPoints == {p \in SamplePoints : RLe(data.x[Len(data.x)], I(p[1]))}

NextSorted ==
  \/ AppendPoint(AscendingPoints, MaxPoints)
  \/ SetChartArea

\* Charts of every gap configuration, over series ascending in x
SpecSorted == Init /\ [][NextSorted]_vars

\* ------------------------------------------------------------------------
\* Hit zones and the hit test (C1, C2)
\* ------------------------------------------------------------------------

RectRight(area) == RAdd(area.x, area.width)

InsideRect(area, px) == RLe(area.x, px) /\ RLe(px, RectRight(area))

\* the pointer positions tried: an even grid across the rectangle and every
\* zone boundary and point position of the table that lies inside it
PointerXs(area, table) ==
  {RAdd(area.x, RDiv(RMul(I(k), area.width), I(PointerSteps))) : k \in 0..PointerSteps}
  \cup {px \in {table[k].hitZoneStart : k \in 1..Len(table)}
                 \cup {table[k].hitZoneEnd : k \in 1..Len(table)}
                 \cup {table[k].scaledX : k \in 1..Len(table)} : InsideRect(area, px)}

\* entry k owns px: its half-open zone holds px, the last zone also its end
OwnsPointer(table, k, px) ==
  \/ RLe(table[k].hitZoneStart, px) /\ RLt(px, table[k].hitZoneEnd)
  \/ k = Len(table) /\ REq(px, table[k].hitZoneEnd)

ZoneOwners(table, px) == {k \in 1..Len(table) : OwnsPointer(table, k, px)}

\* C1: in the table the chart built, whatever the order of the series' x
\* values, every pointer x inside the rectangle lies in the hit zone of
\* exactly one entry, and findCoordinateAtGestureX returns that entry (never
\* null).
C1_ExactlyOneZone ==
  \A px \in PointerXs(chartArea, lookupTable) :
    /\ Cardinality(ZoneOwners(lookupTable, px)) = 1
    /\ findCoordinateAtGestureX(px, lookupTable) \in ZoneOwners(lookupTable, px)

\* C2: the table has one entry per scaled point, in the same order; the first
\* zone starts at rect.x, the last ends at rect.x + rect.width, and every
\* zone ends where the next starts, at the midpoint of the two scaled x.
C2_ZonesChain ==
  LET n == Len(scaling.scaledData)
  IN  /\ Len(lookupTable) = n
      /\ \A k \in 1..n :
           /\ lookupTable[k].dataIndex = k - 1
           /\ lookupTable[k].scaledX = scaling.scaledData[k].x
           /\ lookupTable[k].scaledY = scaling.scaledData[k].y
           /\ lookupTable[k].originalX = scaling.scaledData[k].originalX
           /\ lookupTable[k].originalY = scaling.scaledData[k].originalY
      /\ lookupTable[1].hitZoneStart = chartArea.x
      /\ lookupTable[n].hitZoneEnd = RectRight(chartArea)
      /\ \A k \in 1..(n - 1) :
           /\ lookupTable[k].hitZoneEnd = lookupTable[k + 1].hitZoneStart
           /\ lookupTable[k].hitZoneEnd =
                RDiv(RAdd(scaling.scaledData[k].x, scaling.scaledData[k + 1].x), I(2))

\* a table of at least three unevenly spaced points
C2_Witness ==
  /\ Len(lookupTable) >= 3
  /\ RLt(lookupTable[1].scaledX, lookupTable[2].scaledX)
  /\ RLt(lookupTable[2].scaledX, lookupTable[3].scaledX)
  /\ RSub(lookupTable[2].scaledX, lookupTable[1].scaledX)
       # RSub(lookupTable[3].scaledX, lookupTable[2].scaledX)
  /\ lookupTable[2].hitZoneStart # lookupTable[2].hitZoneEnd

\* ------------------------------------------------------------------------
\* The scaler (C3 - C7)
\* ------------------------------------------------------------------------

\* the raw x values tried: the integers and half-integers of 0 .. MaxX
XProbes == {Rat(k, 2) : k \in 0..(2 * MaxX)}

\* the raw y values tried: the data's y values, the ends and the middle of
\* the y range
YProbes(sc, d) ==
  {d.y[k] : k \in 1..Len(d.y)}
  \cup {sc.yRange.min, sc.yRange.max,
        RDiv(RAdd(sc.yRange.min, sc.yRange.max), I(2))}

InRange(range, v) == RLe(range.min, v) /\ RLe(v, range.max)

\* fixed-width-gap mode is in effect: asked for, and a gap was detected
FixedWidthMode(sc) == ~sc.standard

GapsOf(sc) == {sc.detectedGaps[k] : k \in 1..Len(sc.detectedGaps)}

\* C3: the inverse functions invert the forward ones on every in-range
\* value, in proportional and in fixed-width-gap mode, the values between a
\* gap's startX and endX included.
C3_RoundTrip ==
  LET sc == scaling.sc
  IN  /\ \A v \in XProbes :
           InRange(sc.xRange, v) => REq(unscaleX(sc, scaleX(sc, v)), v)
      /\ \A v \in YProbes(sc, data) :
           InRange(sc.yRange, v) => REq(unscaleY(sc, scaleY(sc, v)), v)

\* C4: in fixed-width-gap mode the two points that bound a detected gap are
\* exactly the fixed gap width apart on screen.
C4_GapWidth ==
  LET sc == scaling.sc
  IN  FixedWidthMode(sc) =>
        \A gap \in GapsOf(sc) :
          REq(RSub(scaleX(sc, gap.endX), scaleX(sc, gap.startX)), sc.fixedGapWidth)

\* screen coordinates strictly inside the band from a to b
BandProbes(a, b) ==
  {RAdd(a, RDiv(RMul(I(k), RSub(b, a)), I(4))) : k \in 1..3}

\* C5: in fixed-width-gap mode a value strictly inside a gap's x range is
\* scaled to the gap's screen start, scaleX(gap.startX), and a screen
\* coordinate inside the gap's band is unscaled to gap.startX.
C5_GapInterior ==
  LET sc == scaling.sc
  IN  FixedWidthMode(sc) =>
        \A gap \in GapsOf(sc) :
          /\ \A v \in XProbes :
               (RLt(gap.startX, v) /\ RLt(v, gap.endX))
                 => REq(scaleX(sc, v), scaleX(sc, gap.startX))
          /\ \A c \in BandProbes(scaleX(sc, gap.startX),
                                 RAdd(scaleX(sc, gap.startX), sc.fixedGapWidth)) :
               REq(unscaleX(sc, c), gap.startX)

\* ------------------------------------------------------------------------
\* Both axes varied, with and without a y-range override (C6, C7)
\* ------------------------------------------------------------------------

\* the most points of a series of the two-axis specification
MaxAxisPoints == 2

\* the largest x of a series of the two-axis specification
MaxAxisX == 1

\* the largest y of a series of the two-axis specification
MaxAxisY == 2

AxisPoints == (0..MaxAxisX) \X (0..MaxAxisY)

\* a threshold below 1: every positive interval of an even series is a gap
SensitiveFixedWidthGaps == [FixedWidthGaps EXCEPT !.threshold = Rat(1, 2)]

AxisGapConfigs == {NoGaps, FixedWidthGaps, SensitiveFixedWidthGaps}

\* the yRange argument: absent, an ordinary range, a range of zero span and
\* a range given with its ends exchanged
YRangeOverrides ==
  {<< >>,
   <<[min |-> I(-1), max |-> I(3)]>>,
   <<[min |-> I(1), max |-> I(1)]>>,
   <<[min |-> I(3), max |-> I(-1)]>>}

InitAxes ==
  /\ \E p \in AxisPoints, g \in AxisGapConfigs, yr \in YRangeOverrides :
       Mounted(p, WideArea, g, yr, DefaultLineStyle)
  /\ DetectorIdle
  /\ QueryIdle
  /\ UtilitiesIdle

NextAxes ==
  \/ AppendPoint(AxisPoints, MaxAxisPoints)
  \/ SetChartArea

\* Charts whose series vary on both axes, with every kind of yRange argument
SpecAxes == InitAxes /\ [][NextAxes]_vars

RectBottom(area) == RAdd(area.y, area.height)

MidX(area) == RAdd(area.x, RDiv(area.width, I(2)))

MidY(area) == RAdd(area.y, RDiv(area.height, I(2)))

Values(xs) == {xs[k] : k \in 1..Len(xs)}

\* v is the least (greatest) element of xs
IsLeastOf(v, xs) == v \in Values(xs) /\ \A w \in Values(xs) : RLe(v, w)

IsGreatestOf(v, xs) == v \in Values(xs) /\ \A w \in Values(xs) : RGe(v, w)

\* the ranges C6 states: x the exact data range; y the override verbatim, or
\* the data range widened by a twentieth of its span at each end
RangesAsStated(sc) ==
  /\ IsLeastOf(sc.xRange.min, data.x)
  /\ IsGreatestOf(sc.xRange.max, data.x)
  /\ IF yRangeProp # << >> THEN sc.yRange = yRangeProp[1]
     ELSE \E lo \in Values(data.y), hi \in Values(data.y) :
            /\ IsLeastOf(lo, data.y)
            /\ IsGreatestOf(hi, data.y)
            /\ sc.yRange.min = RSub(lo, RDiv(RSub(hi, lo), I(20)))
            /\ sc.yRange.max = RAdd(hi, RDiv(RSub(hi, lo), I(20)))

\* every scaled point is the image of its data point and keeps its origin
ScaledDataAsStated(sc) ==
  /\ Len(scaling.scaledData) = Len(data.x)
  /\ \A k \in 1..Len(data.x) :
       /\ scaling.scaledData[k].x = scaleX(sc, data.x[k])
       /\ scaling.scaledData[k].y = scaleY(sc, data.y[k])
       /\ scaling.scaledData[k].originalX = data.x[k]
       /\ scaling.scaledData[k].originalY = data.y[k]
       /\ scaling.scaledData[k].index = k - 1

XEndsOnEdges(sc) ==
  /\ REq(scaleX(sc, sc.xRange.min), chartArea.x)
  /\ REq(scaleX(sc, sc.xRange.max), RectRight(chartArea))

YEndsOnEdges(sc) ==
  /\ REq(scaleY(sc, sc.yRange.min), RectBottom(chartArea))
  /\ REq(scaleY(sc, sc.yRange.max), chartArea.y)

\* a lesser x is never drawn to the right of a greater one
XOrderKept(sc) ==
  \A v \in XProbes, w \in XProbes :
    RLt(v, w) => RLe(scaleX(sc, v), scaleX(sc, w))

\* a lesser y is never drawn above a greater one
YOrderReversed(sc) ==
  \A v \in YProbes(sc, data), w \in YProbes(sc, data) :
    RLt(v, w) => RGe(scaleY(sc, v), scaleY(sc, w))

\* distinct values are drawn at distinct places, in order
XOrderStrict(sc) ==
  \A v \in XProbes, w \in XProbes :
    RLt(v, w) => RLt(scaleX(sc, v), scaleX(sc, w))

YOrderStrict(sc) ==
  \A v \in YProbes(sc, data), w \in YProbes(sc, data) :
    RLt(v, w) => RGt(scaleY(sc, v), scaleY(sc, w))

\* C6 as stated: in proportional mode the ranges are the stated ones, the
\* ends of each range are drawn on the rectangle's edges, scaleX keeps the
\* order and scaleY reverses it, and every scaled point is the image of its
\* data point with its original values and index.
C6_AsStated ==
  LET sc == scaling.sc
  IN  sc.standard =>
        /\ RangesAsStated(sc)
        /\ XEndsOnEdges(sc) /\ YEndsOnEdges(sc)
        /\ XOrderKept(sc) /\ YOrderReversed(sc)
        /\ ScaledDataAsStated(sc)

\* C6: in proportional mode the ranges are the stated ones and every scaled
\* point is the image of its data point with its original values and index;
\* on an axis whose range has min < max the ends of the range are drawn on
\* the rectangle's edges and the map is strictly order-preserving in x and
\* strictly order-reversing in y.
C6_LinearMap ==
  LET sc == scaling.sc
  IN  sc.standard =>
        /\ RangesAsStated(sc)
        /\ RLt(sc.xRange.min, sc.xRange.max) => XEndsOnEdges(sc) /\ XOrderStrict(sc)
        /\ RLt(sc.yRange.min, sc.yRange.max) => YEndsOnEdges(sc) /\ YOrderStrict(sc)
        /\ ScaledDataAsStated(sc)

\* a proportional chart of two points that differ on both axes, drawn left to
\* right and bottom to top
C6_Witness ==
  /\ scaling.sc.standard
  /\ Len(data.x) = 2
  /\ RLt(data.x[1], data.x[2])
  /\ RGt(data.y[1], data.y[2])
  /\ RLt(scaling.sc.yRange.min, scaling.sc.yRange.max)
  /\ RLt(scaling.scaledData[1].x, scaling.scaledData[2].x)
  /\ RLt(scaling.scaledData[1].y, scaling.scaledData[2].y)

AllEqual(xs) == \A k \in 1..Len(xs) : xs[k] = xs[1]

\* the screen coordinates handed to the inverse functions
XCoordinates(area) == {area.x, MidX(area), RectRight(area)}

YCoordinates(area) == {area.y, MidY(area), RectBottom(area)}

\* identical x: every point on the vertical midline, unscaleX the range min
XMidline(sc) ==
  /\ \A k \in 1..Len(data.x) : scaling.scaledData[k].x = MidX(chartArea)
  /\ \A c \in XCoordinates(chartArea) : unscaleX(sc, c) = sc.xRange.min

\* identical y: every point on the horizontal midline, unscaleY the range min
YMidline(sc) ==
  /\ \A k \in 1..Len(data.y) : scaling.scaledData[k].y = MidY(chartArea)
  /\ \A c \in YCoordinates(chartArea) : unscaleY(sc, c) = sc.yRange.min

\* C7 as stated: a series of identical x is drawn on the vertical midline
\* and a series of identical y on the horizontal midline, in every gap mode,
\* and the inverse functions return the range minimum.
C7_AsStated ==
  LET sc == scaling.sc
  IN  /\ AllEqual(data.x) => XMidline(sc)
      /\ AllEqual(data.y) => YMidline(sc)

\* C7: a series of identical x is drawn on the vertical midline, and, when
\* no yRange override is supplied, a series of identical y on the horizontal
\* midline, in every gap mode; the inverse functions then return the range
\* minimum.
C7_Midline ==
  LET sc == scaling.sc
  IN  /\ AllEqual(data.x) => XMidline(sc)
      /\ (AllEqual(data.y) /\ yRangeProp = << >>) => YMidline(sc)

\* two points of one x and one y, fixed-width gaps asked for, no override
C7_Witness ==
  /\ Len(data.x) = 2
  /\ AllEqual(data.x)
  /\ AllEqual(data.y)
  /\ gaps.enabled /\ gaps.fixedWidthGaps
  /\ yRangeProp = << >>
  /\ scaling.scaledData[2].x = MidX(chartArea)
  /\ scaling.scaledData[2].y = MidY(chartArea)

\* ------------------------------------------------------------------------
\* The gap detector called on its own (C8)
\* ------------------------------------------------------------------------

\* the most timestamps handed to the detector
MaxStamps == 5

\* the largest step from one timestamp to the next
MaxStep == 4

\* the threshold arguments: absent, and 1/2, 1 and 3/2
Thresholds == {Undefined, Rat(1, 2), I(1), Rat(3, 2)}

InitDetector ==
  /\ Mounted(<<0, 0>>, WideArea, NoGaps, << >>, DefaultLineStyle)
  /\ timestamps = << >>
  /\ threshold \in Thresholds
  /\ gapsFound = detectGaps(<< >>, threshold)
  /\ expectedInterval = calculateExpectedInterval(<< >>)
  /\ QueryIdle
  /\ UtilitiesIdle

\* the next timestamps, never below the last one
NextStamps ==
  IF timestamps = << >> THEN {I(0)}
  ELSE {RAdd(timestamps[Len(timestamps)], I(step)) : step \in 0..MaxStep}

\* the caller has one more timestamp and calls both functions again
PushTimestamp ==
  /\ Len(timestamps) < MaxStamps
  /\ \E t \in NextStamps :
       /\ timestamps' = Append(timestamps, t)
       /\ gapsFound' = detectGaps(timestamps', threshold)
       /\ expectedInterval' = calculateExpectedInterval(timestamps')
  /\ UNCHANGED <<threshold, chartVars, interpVars, utilityVars>>

NextDetector == PushTimestamp

\* detectGaps and calculateExpectedInterval on every ascending sequence
SpecDetector == InitDetector /\ [][NextDetector]_vars

\* the delta that follows position i (0-based) of xs
DeltaAt(xs, i) == RSub(xs[i + 2], xs[i + 1])

DeltaPositions(xs) == 0..(Len(xs) - 2)

\* m is the median of the deltas of xs: the delta that stands at position
\* floor(count / 2) when they are put in ascending order, which is the
\* middle one of an odd count and the upper middle one of an even count
IsMedianDelta(m, xs) ==
  LET half == (Len(xs) - 1) \div 2
  IN  /\ \E i \in DeltaPositions(xs) : DeltaAt(xs, i) = m
      /\ Cardinality({i \in DeltaPositions(xs) : RLt(DeltaAt(xs, i), m)}) <= half
      /\ Cardinality({i \in DeltaPositions(xs) : RLe(DeltaAt(xs, i), m)}) >= half + 1

\* the positions whose delta is strictly greater than threshold times m
Flagged(xs, thr, m) ==
  {i \in DeltaPositions(xs) : RGt(DeltaAt(xs, i), RMul(thr, m))}

\* C8: for fewer than two timestamps no gap is returned and the expected
\* interval is 0; otherwise calculateExpectedInterval returns the median of
\* the consecutive deltas and detectGaps returns, in ascending index order,
\* exactly one gap {i, i+1, x[i], x[i+1], x[i+1]-x[i]} for each i whose delta
\* is strictly greater than threshold times that median, and no other.
C8_GapsAreTheLongDeltas ==
  LET n == Len(timestamps)
      thr == IF threshold = Undefined THEN DEFAULT_GAP_THRESHOLD ELSE threshold
      flagged == Flagged(timestamps, thr, expectedInterval)
  IN  IF n < 2 THEN gapsFound = << >> /\ expectedInterval = I(0)
      ELSE /\ IsMedianDelta(expectedInterval, timestamps)
           /\ Len(gapsFound) = Cardinality(flagged)
           /\ \A k \in 1..Len(gapsFound) :
                LET i == gapsFound[k].startIndex
                IN  /\ i \in flagged
                    /\ gapsFound[k].endIndex = i + 1
                    /\ gapsFound[k].startX = timestamps[i + 1]
                    /\ gapsFound[k].endX = timestamps[i + 2]
                    /\ gapsFound[k].duration = DeltaAt(timestamps, i)
           /\ \A k \in 1..(Len(gapsFound) - 1) :
                gapsFound[k].startIndex < gapsFound[k + 1].startIndex

\* five timestamps under the default threshold, their four deltas not all
\* equal, of which some but not all are gaps
C8_Witness ==
  /\ Len(timestamps) = 5
  /\ threshold = Undefined
  /\ Len(gapsFound) >= 1
  /\ Len(gapsFound) < 4
  /\ \E i \in DeltaPositions(timestamps) :
       RLt(DeltaAt(timestamps, i), expectedInterval)

\* ------------------------------------------------------------------------
\* The line path under every smoothing mode (C9, C10)
\* ------------------------------------------------------------------------

\* the most points of a series of the path specification
MaxPathPoints == 4

\* the largest x of a series of the path specification
MaxPathX == 4

\* the points of a series of the path specification: three x one apart and
\* one further away, their y alternating with x
PathPoints == {<<px, px % 2>> : px \in {0, 1, 2, MaxPathX}}

\* gaps detected with a threshold of 3/2, drawn proportionally
ClosePackedGaps == [ProportionalGaps EXCEPT !.threshold = Rat(3, 2)]

PathGapConfigs == {NoGaps, ProportionalGaps, ClosePackedGaps}

\* a lineStyle without smoothing and tension
UnstyledLine == [smoothing |-> "", tension |-> Undefined]

LineStyles ==
  {UnstyledLine,
   DefaultLineStyle,
   [smoothing |-> "bezier", tension |-> Rat(3, 10)],
   [smoothing |-> "catmull-rom", tension |-> Rat(1, 2)],
   [smoothing |-> "cardinal", tension |-> I(1)]}

InitPath ==
  /\ \E p \in PathPoints, g \in PathGapConfigs, ls \in LineStyles :
       Mounted(p, WideArea, g, << >>, ls)
  /\ DetectorIdle
  /\ QueryIdle
  /\ UtilitiesIdle

NextPath == AppendPoint(PathPoints, MaxPathPoints)

\* Charts of every smoothing mode, over series in any x order
SpecPath == InitPath /\ [][NextPath]_vars

\* the rearrangements of 1 .. n, for every n up to the longest series
Rearrangements ==
  [n \in 1..MaxPathPoints |->
     {f \in [1..n -> 1..n] : \A i \in 1..n, j \in 1..n : f[i] = f[j] => i = j}]

Rearranged(points, f) == [k \in 1..Len(points) |-> points[f[k]]]

\* f lists the points in non-decreasing originalX
Ascending(points, f) ==
  \A k \in 1..(Len(points) - 1) :
    RLe(points[f[k]].originalX, points[f[k + 1]].originalX)

DistinctOriginalX(points) ==
  \A i \in 1..Len(points), j \in 1..Len(points) :
    points[i].originalX = points[j].originalX => i = j

\* the point an instruction ends at: its last two numbers
EndPoint(instruction) ==
  <<instruction[Len(instruction) - 1], instruction[Len(instruction)]>>

\* the path visits the points in the order f
VisitsInOrder(path, points, f) ==
  /\ Len(path) = Len(points)
  /\ \A k \in 1..Len(points) :
       EndPoint(path[k]) = <<points[f[k]].x, points[f[k]].y>>

\* C9: for two or more scaled points, in whatever order they are listed,
\* the vertices of the path are the points in an order of non-decreasing
\* originalX; and when the originalX are distinct, every rearrangement of the
\* list gives the identical path.
C9_DrawnInAscendingX ==
  LET points == scaling.scaledData
      n == Len(points)
  IN  n >= 2 =>
        /\ \E f \in Rearrangements[n] :
             Ascending(points, f) /\ VisitsInOrder(mainPath, points, f)
        /\ DistinctOriginalX(points) =>
             \A f \in Rearrangements[n] :
               generatePath(Rearranged(points, f), gaps, lineStyle) = mainPath

\* four points of distinct x listed out of order, one pair of them a gap,
\* drawn with a smoothing
C9_Witness ==
  /\ Len(scaling.scaledData) = 4
  /\ DistinctOriginalX(scaling.scaledData)
  /\ RGt(data.x[1], data.x[2])
  /\ RLt(data.x[2], data.x[3])
  /\ gaps.enabled
  /\ lineStyle.smoothing = "catmull-rom"
  /\ \E k \in 2..4 : mainPath[k][1] = "M"
  /\ \E k \in 2..4 : mainPath[k][1] = "C"

\* the x values of the points in ascending order
SortedOriginalX(points) ==
  LET f == CHOOSE f \in Rearrangements[Len(points)] : Ascending(points, f)
  IN  [k \in 1..Len(points) |-> points[f[k]].originalX]

\* the pairs (i, i + 1) detectGaps flags in the sorted x values, by their i
FlaggedPairs(points, g) ==
  LET found == detectGaps(SortedOriginalX(points), g.threshold)
  IN  {found[k].startIndex : k \in 1..Len(found)}

\* the instruction that draws to a point where no gap is
DrawingCommand(style) ==
  IF style.smoothing \in {"", "none"} THEN "L" ELSE "C"

\* C10: for two or more points the path starts with a move-to; with gaps
\* enabled the instruction that reaches sorted point i+1 is a move-to exactly
\* when detectGaps flags the pair (i, i+1) and otherwise a line-to (no
\* smoothing) or a cubic curve (bezier, catmull-rom, cardinal); with gaps
\* not enabled no instruction but the first is a move-to.
C10_GapBreaks ==
  LET points == scaling.scaledData
      n == Len(points)
      flagged == IF gaps.enabled THEN FlaggedPairs(points, gaps) ELSE {}
  IN  n >= 2 =>
        /\ Len(mainPath) = n
        /\ mainPath[1][1] = "M"
        /\ \A i \in 0..(n - 2) :
             mainPath[i + 2][1] =
               IF i \in flagged THEN "M" ELSE DrawingCommand(lineStyle)

\* gaps enabled, four points, a break at one pair and a drawn instruction
\* at another
C10_Witness ==
  /\ gaps.enabled
  /\ Len(mainPath) = 4
  /\ Len(scaling.scaledData) = 4
  /\ \E k \in 2..4 : mainPath[k][1] = "M"
  /\ \E k \in 2..4 : mainPath[k][1] = DrawingCommand(lineStyle)

\* ------------------------------------------------------------------------
\* The shape of the line path (C11)
\* ------------------------------------------------------------------------

\* the commands of a path, in order
Commands(path) == [k \in 1..Len(path) |-> path[k][1]]

\* no pair of the points is a gap: gaps are not enabled, or none is detected
NoBreaks(points, g) == ~g.enabled \/ FlaggedPairs(points, g) = {}

\* C11: no points give the empty path; one point gives a move-to and one
\* arc; two or more points without gaps give a move-to to the first sorted
\* point followed by n-1 line-to (smoothing none or absent) or n-1 cubic
\* curves (bezier, catmull-rom, cardinal), the k-th ending at sorted point
\* k+1.
C11_ShapeByCount ==
  LET points == scaling.scaledData
      n == Len(points)
  IN  /\ generatePath(<< >>, gaps, lineStyle) = << >>
      /\ n = 1 => Commands(mainPath) = <<"M", "A">>
      /\ (n >= 2 /\ NoBreaks(points, gaps)) =>
           /\ Commands(mainPath) =
                [k \in 1..n |-> IF k = 1 THEN "M" ELSE DrawingCommand(lineStyle)]
           /\ \E f \in Rearrangements[n] :
                Ascending(points, f) /\ VisitsInOrder(mainPath, points, f)

\* four points listed out of order and drawn as three cardinal curves
C11_Witness ==
  /\ Len(scaling.scaledData) = 4
  /\ RGt(data.x[1], data.x[2])
  /\ lineStyle.smoothing = "cardinal"
  /\ NoBreaks(scaling.scaledData, gaps)
  /\ Commands(mainPath) = <<"M", "C", "C", "C">>

\* ------------------------------------------------------------------------
\* Tension (C12)
\* ------------------------------------------------------------------------

\* tensions of the documented range 0 .. 1
Tensions == {I(0), Rat(3, 10), Rat(1, 2), I(1)}

Smoothed(style) == style.smoothing \in {"bezier", "catmull-rom", "cardinal"}

\* C12: for two or more points drawn with a smoothing, a tension of the
\* range 0 .. 1 other than the one in use gives a different path.
C12_TensionsDiffer ==
  (Len(scaling.scaledData) >= 2 /\ Smoothed(lineStyle) /\ ~gaps.enabled) =>
    \A t \in Tensions \ {lineStyle.tension} :
      generatePath(scaling.scaledData, gaps, [lineStyle EXCEPT !.tension = t])
        # mainPath

\* ------------------------------------------------------------------------
\* The fill path (C13): utils/pathGeneration generateFillPath, and the
\* FillRenderer that builds its path from generatePath.  A FillRenderer
\* that renders nothing (null) has the empty path.
\* ------------------------------------------------------------------------

\* chartArea.y + chartArea.height
BottomY(area) == RAdd(area.y, area.height)

\* the closing Z
ClosePath == <<"Z">>

generateFillPath(scaledData, area) ==
  IF Len(scaledData) = 0 THEN << >>
  ELSE LET sortedData == SortByOriginalX(scaledData)
           bottomY == BottomY(area)
           lastPoint == sortedData[Len(sortedData)]
       IN  << <<"M", sortedData[1].x, bottomY>> >>
           \o [k \in 1..Len(sortedData) |-> LineTo(sortedData[k])]
           \o << <<"L", lastPoint.x, bottomY>>, ClosePath >>

\* the FillRenderer with smooth curve support: fillPath
FillRenderer(scaledData, area, fillEnabled, style) ==
  IF ~fillEnabled \/ Len(scaledData) = 0 THEN << >>
  ELSE LET path == generatePath(scaledData, NoGaps, style)
           bottomY == BottomY(area)
           sortedData == SortByOriginalX(scaledData)
       IN  path \o << <<"L", sortedData[Len(sortedData)].x, bottomY>>,
                      <<"L", sortedData[1].x, bottomY>>,
                      ClosePath >>

\* the fill path C13 states: the line path, a line to the bottom edge under
\* the last sorted point, a line to the bottom edge under the first, Z
FillAsStated(points, area, style) ==
  LET f == CHOOSE f \in Rearrangements[Len(points)] : Ascending(points, f)
  IN  generatePath(points, NoGaps, style)
      \o << <<"L", points[f[Len(points)]].x, RectBottom(area)>>,
            <<"L", points[f[1]].x, RectBottom(area)>>,
            <<"Z">> >>

\* C13: the fill path of one or more scaled points is the line path followed
\* by a line-to (x of the last sorted point, bottom edge), a line-to (x of
\* the first sorted point, bottom edge) and a close-path; the fill path of
\* no points is empty.
C13_FillClosesLinePath ==
  /\ generateFillPath(<< >>, chartArea) = << >>
  /\ generateFillPath(scaling.scaledData, chartArea)
       = FillAsStated(scaling.scaledData, chartArea, lineStyle)

\* ------------------------------------------------------------------------
\* Values looked up on a chart of ascending x (C14 - C16)
\* ------------------------------------------------------------------------

\* a chart one pixel wide: neighbouring points closer than the epsilon
SliverArea == [x |-> I(20), y |-> I(10), width |-> I(1), height |-> I(170)]

InterpAreas == {WideArea, SliverArea}

InterpGapConfigs == {NoGaps, FixedWidthGaps}

InitInterp ==
  /\ \E p \in SamplePoints, g \in InterpGapConfigs, area \in InterpAreas :
       Mounted(p, area, g, << >>, DefaultLineStyle)
  /\ DetectorIdle
  /\ QueryIdle
  /\ UtilitiesIdle

\* the screen positions asked for: every point's x, positions a quarter of a
\* pixel and one pixel to either side of it, and the middle and the first
\* quarter of every pair of neighbours
QueryXs(points) ==
  {points[k].x : k \in 1..Len(points)}
  \cup {RAdd(points[k].x, d) :
          k \in 1..Len(points), d \in {I(-1), Rat(-1, 4), Rat(1, 4), I(1)}}
  \cup {RAdd(points[k].x, RDiv(RSub(points[k + 1].x, points[k].x), I(m))) :
          k \in 1..(Len(points) - 1), m \in {2, 4}}

\* the tooltip looks up the value at a screen position
InterpolateAt ==
  /\ \E q \in QueryXs(scaling.scaledData) :
       /\ queryX' = q
       /\ interpolated' = interpolateAtX(scaling.scaledData, q)
  /\ UNCHANGED <<chartVars, detectorVars, utilityVars>>

NextInterp ==
  \/ AppendPoint(AscendingPoints, MaxPoints)
  \/ InterpolateAt

\* Charts over series ascending in x, with values looked up on them
SpecInterp == InitInterp /\ [][NextInterp]_vars

Queried == queryX # Undefined

AscendingScreenX(points) ==
  \A k \in 1..(Len(points) - 1) : RLe(points[k].x, points[k + 1].x)

\* the original values and the index of a point
OriginalOf(point) ==
  [x |-> point.originalX, y |-> point.originalY, index |-> point.index]

FirstPoint == scaling.scaledData[1]

LastPoint == scaling.scaledData[Len(scaling.scaledData)]

\* the distance on screen from a point to a position
ScreenDistance(point, x) ==
  IF RLt(point.x, x) THEN RSub(x, point.x) ELSE RSub(point.x, x)

C15_AsStated ==
  (Queried /\ AscendingScreenX(scaling.scaledData)) =>
    \A k \in 1..Len(scaling.scaledData) :
      queryX = scaling.scaledData[k].x
        => interpolated = <<OriginalOf(scaling.scaledData[k])>>

\* no other point is nearer than the epsilon, half a pixel, to point k
StandsAlone(points, k) ==
  \A j \in 1..Len(points) :
    j # k => RGe(ScreenDistance(points[j], points[k].x), Rat(1, 2))

\* C15: a query at the screen x of point k returns the original values and
\* the index of point k when no other point is within half a pixel of it on
\* screen.
C15_ExactAtPoint ==
  (Queried /\ AscendingScreenX(scaling.scaledData)) =>
    \A k \in 1..Len(scaling.scaledData) :
      (queryX = scaling.scaledData[k].x /\ StandsAlone(scaling.scaledData, k))
        => interpolated = <<OriginalOf(scaling.scaledData[k])>>

\* four points apart on screen, the value looked up at the third
C15_Witness ==
  /\ Queried
  /\ Len(scaling.scaledData) = 4
  /\ StandsAlone(scaling.scaledData, 3)
  /\ queryX = scaling.scaledData[3].x
  /\ interpolated = <<OriginalOf(scaling.scaledData[3])>>

\* the value on the straight line from p1 to p2 at the screen position x
OnTheLine(p1, p2, x) ==
  LET r == RDiv(RSub(x, p1.x), RSub(p2.x, p1.x))
  IN  [x |-> RAdd(p1.originalX, RMul(RSub(p2.originalX, p1.originalX), r)),
       y |-> RAdd(p1.originalY, RMul(RSub(p2.originalY, p1.originalY), r)),
       index |-> IF RLt(r, Rat(1, 2)) THEN p1.index ELSE p2.index]

\* the query is half a pixel or more away from every point
AwayFromPoints(points, x) ==
  \A j \in 1..Len(points) : RGe(ScreenDistance(points[j], x), Rat(1, 2))

\* the two points of the example: original (1, 150) and (2, 200)
ExamplePoints ==
  << [x |-> I(100), y |-> I(80), originalX |-> I(1), originalY |-> I(150), index |-> 0],
     [x |-> I(200), y |-> I(40), originalX |-> I(2), originalY |-> I(200), index |-> 1] >>

\* C16: a query strictly between two neighbours p1 and p2 and not within the
\* epsilon of any point returns the original x and y interpolated linearly
\* by r = (x - p1.x) / (p2.x - p1.x), with the index of p1 when r < 0.5 and
\* of p2 otherwise; the screen midpoint of (1, 150) and (2, 200) gives
\* x = 1.5, y = 175.
C16_LinearBetween ==
  /\ interpolateAtX(ExamplePoints, I(150))
       = <<[x |-> Rat(3, 2), y |-> I(175), index |-> 1]>>
  /\ (Queried /\ AscendingScreenX(scaling.scaledData)) =>
       \A k \in 1..(Len(scaling.scaledData) - 1) :
         LET p1 == scaling.scaledData[k]
             p2 == scaling.scaledData[k + 1]
         IN  (RLt(p1.x, queryX) /\ RLt(queryX, p2.x)
              /\ AwayFromPoints(scaling.scaledData, queryX))
               => interpolated = <<OnTheLine(p1, p2, queryX)>>

\* a value looked up in the first quarter between the second and the third
\* of four points, reported with the index of the second
C16_Witness ==
  /\ Queried
  /\ Len(scaling.scaledData) = 4
  /\ RLt(scaling.scaledData[2].x, queryX)
  /\ RLt(queryX, scaling.scaledData[3].x)
  /\ AwayFromPoints(scaling.scaledData, queryX)
  /\ interpolated # << >>
  /\ interpolated[1].index = 1
  /\ RLt(scaling.scaledData[2].originalX, interpolated[1].x)
  /\ RLt(interpolated[1].x, scaling.scaledData[3].originalX)

\* ------------------------------------------------------------------------
\* The generic binary search (C17)
\* ------------------------------------------------------------------------

MaxItems == 4

MaxHalf == 3

MaxUlps == 1

\* the doubles of the search: those within MaxUlps units of 2^-53 of
\* 0, 1/2, .. MaxHalf / 2
Doubles ==
  UNION {{Double(half, ulps) :
            ulps \in {u \in (-MaxUlps)..MaxUlps : IsDouble(half, u)}} :
         half \in 0..MaxHalf}

InitSearch ==
  /\ SearchFrameIdle
  /\ searchArray = << >>
  /\ searchTarget \in Doubles
  /\ searchResult = binarySearch(searchArray, searchTarget)

\* the values an array that stays strictly ascending can go on with
NextValues ==
  IF searchArray = << >> THEN Doubles
  ELSE {d \in Doubles : DLt(getValue(searchArray[Len(searchArray)]), d)}

\* the caller has one more item and searches again
PushItem ==
  /\ Len(searchArray) < MaxItems
  /\ \E d \in NextValues :
       /\ searchArray' =
            Append(searchArray, [id |-> Len(searchArray) + 1, value |-> d])
       /\ searchResult' = binarySearch(searchArray', searchTarget)
  /\ UNCHANGED <<searchTarget, searchFrame>>

\* the caller searches for another target
SearchFor ==
  /\ \E t \in Doubles \ {searchTarget} :
       /\ searchTarget' = t
       /\ searchResult' = binarySearch(searchArray, t)
  /\ UNCHANGED <<searchArray, searchFrame>>

NextSearch ==
  \/ PushItem
  \/ SearchFor

\* binarySearch on every strictly ascending array, for every target
SpecSearch == InitSearch /\ [][NextSearch]_vars

\* the indices of the array, from 0 as the result counts them
Indices == 0..(Len(searchArray) - 1)

ValueAt(i) == getValue(searchArray[i + 1])

LastIndex == Len(searchArray) - 1

Exactly(i) == [exact |-> <<i>>, lower |-> i, upper |-> i]

BelowTarget == {i \in Indices : DLt(ValueAt(i), searchTarget)}

GreatestBelow == CHOOSE i \in BelowTarget : \A j \in BelowTarget : j <= i

\* the target lies strictly inside the array's range
InsideRange ==
  /\ searchArray # << >>
  /\ DLt(ValueAt(0), searchTarget)
  /\ DLt(searchTarget, ValueAt(LastIndex))

\* the empty array and the targets at or beyond the ends
EndsAsStated ==
  /\ searchArray = << >>
       => searchResult = [exact |-> << >>, lower |-> 0, upper |-> 0]
  /\ searchArray # << >> /\ DLe(searchTarget, ValueAt(0))
       => searchResult = Exactly(0)
  /\ searchArray # << >> /\ ~DLe(searchTarget, ValueAt(0))
       /\ DLe(ValueAt(LastIndex), searchTarget)
       => searchResult = Exactly(LastIndex)

\* the targets strictly inside the range
InsideAsStated ==
  InsideRange =>
    IF \E i \in Indices : ValueAt(i) = searchTarget
    THEN \A i \in Indices : ValueAt(i) = searchTarget
                              => searchResult = Exactly(i)
    ELSE searchResult = [exact |-> << >>,
                         lower |-> GreatestBelow,
                         upper |-> GreatestBelow + 1]

\* C17 as the claim states it: the contract for every strictly ascending
\* array and every target.  binarySearch compares with
\* Math.abs(midValue - target) < Number.EPSILON, so a target closer than
\* that to an element it probes is reported as an exact match of it.
C17_AsStated == EndsAsStated /\ InsideAsStated

\* every element equals the target or is at least Number.EPSILON from it
TargetApart ==
  \A i \in Indices :
    ValueAt(i) = searchTarget \/ ~WithinEpsilon(ValueAt(i), searchTarget)

\* C17: binarySearch on a strictly ascending array gives {lower: 0, upper: 0}
\* without exact for the empty array, exact = lower = upper = 0 for a target
\* at or below the first value and n-1 for one at or above the last; for a
\* target inside the range from which every unequal element is at least
\* Number.EPSILON away it gives exact = lower = upper = the index of the
\* element equal to it, and without such an element no exact, lower = the
\* greatest index whose value is below the target and upper = lower + 1.
C17_Contract == EndsAsStated /\ (TargetApart => InsideAsStated)

\* a target strictly between two interior neighbours was searched for
C17_Witness ==
  /\ Len(searchArray) >= 3
  /\ InsideRange
  /\ TargetApart
  /\ \A i \in Indices : ValueAt(i) # searchTarget
  /\ searchResult.exact = << >>
  /\ searchResult.lower >= 1
  /\ searchResult.upper = searchResult.lower + 1

\* ------------------------------------------------------------------------
\* validateData (C19)
\* ------------------------------------------------------------------------

MaxElements == 2

\* what an x or y array can hold: a number, null, undefined, a string, NaN
\* and the two infinities
Elements ==
  {JsNumber(I(1)), JsNull, JsUndefined, JsString("1"),
   JsNumber(NaN), JsNumber(PlusInfinity), JsNumber(MinusInfinity)}

\* what the x or y property starts as: absent, null, a number, a string or
\* an empty array
FieldValues ==
  {JsUndefined, JsNull, JsNumber(I(5)), JsString("12"), JsArray(<< >>)}

InitValidate ==
  /\ ValidationFrameIdle
  /\ candidate \in {JsUndefined, JsNull}
  /\ verdict = validateData(candidate)

\* validateData is called on an object and on no object
PassSeries ==
  /\ \E d \in {JsUndefined, JsNull}
             \cup {JsObject(vx, vy) : vx \in FieldValues, vy \in FieldValues} :
       /\ d # candidate
       /\ candidate' = d
       /\ verdict' = validateData(d)
  /\ UNCHANGED validationFrame

\* the series with one more element on array v
Extended(v, e) == [v EXCEPT !.items = Append(@, e)]

\* validateData is called with one more element in the x or the y array
PushElement ==
  /\ candidate.kind = "object"
  /\ \E e \in Elements :
       \/ /\ IsArray(candidate.x)
          /\ Len(candidate.x.items) < MaxElements
          /\ candidate' = [candidate EXCEPT !.x = Extended(@, e)]
       \/ /\ IsArray(candidate.y)
          /\ Len(candidate.y.items) < MaxElements
          /\ candidate' = [candidate EXCEPT !.y = Extended(@, e)]
  /\ verdict' = validateData(candidate')
  /\ UNCHANGED validationFrame

NextValidate ==
  \/ PassSeries
  \/ PushElement

\* validateData on every shape of argument
SpecValidate == InitValidate /\ [][NextValidate]_vars

\* x and y are arrays of one length, not empty
WellShaped ==
  /\ candidate.kind = "object"
  /\ candidate.x.kind = "array"
  /\ candidate.y.kind = "array"
  /\ Len(candidate.x.items) = Len(candidate.y.items)
  /\ candidate.x.items # << >>

\* what is wrong with one element: 3 for null or undefined, 2 for a value
\* that is no number, 1 for NaN and the infinities, 0 for nothing
DefectOf(v) ==
  IF v.kind \in {"null", "undefined"} THEN 3
  ELSE IF v.kind # "number" THEN 2
  ELSE IF v.value \in {NaN, PlusInfinity, MinusInfinity} THEN 1
  ELSE 0

\* the worse of the defects of the point at the 0-based index i
DefectAt(i) ==
  Max2(DefectOf(candidate.x.items[i + 1]), DefectOf(candidate.y.items[i + 1]))

Offending == {i \in 0..(Len(candidate.x.items) - 1) : DefectAt(i) > 0}

SmallestOffending == CHOOSE i \in Offending : \A j \in Offending : i <= j

\* the text of the element error for a defect at index i
ElementMessage(defect, i) ==
  "Data point at index " \o ToString(i) \o
    (CASE defect = 3 -> " contains null or undefined values"
       [] defect = 2 -> " contains non-numeric values"
       [] defect = 1 -> " contains invalid values (NaN or Infinity)")

\* C19: validateData throws exactly when data is missing, x or y is missing
\* or no array, the lengths differ, the arrays are empty or an element is
\* null/undefined, no number, or NaN or an infinity; an element error names
\* the smallest offending index and, at that index, null/undefined before
\* non-numeric before NaN/Infinity; every other series passes.
C19_ThrowsIffDefective ==
  /\ verdict # NoError <=> (~WellShaped \/ Offending # {})
  /\ WellShaped /\ Offending # {}
       => verdict = <<ElementMessage(DefectAt(SmallestOffending),
                                     SmallestOffending)>>

\* a series whose first point is sound and whose second holds NaN and a
\* string was rejected as non-numeric at index 1
C19_Witness ==
  /\ WellShaped
  /\ Len(candidate.x.items) = 2
  /\ DefectAt(0) = 0
  /\ DefectOf(candidate.x.items[2]) = 1
  /\ DefectOf(candidate.y.items[2]) = 2
  /\ verdict = <<"Data point at index 1 contains non-numeric values">>

\* ------------------------------------------------------------------------
\* Validation in the Chart (C18, C20)
\* ------------------------------------------------------------------------

One == JsNumber(I(1))

Two == JsNumber(I(2))

\* the data props: no object, objects without arrays, arrays of different
\* lengths, empty arrays, arrays with an element of every unsound kind, and
\* sound series
DataProps ==
  {JsUndefined, JsNull,
   JsObject(JsUndefined, JsArray(<<One>>)),
   JsObject(JsArray(<<One>>), JsNull),
   JsObject(JsArray(<<One>>), JsNumber(I(5))),
   JsObject(JsString("12"), JsArray(<<One, Two>>)),
   JsObject(JsArray(<<One, Two>>), JsString("12")),
   JsSeries(<<One, Two>>, <<One>>),
   JsSeries(<< >>, << >>),
   JsSeries(<<One>>, <<One>>),
   JsSeries(<<One, Two>>, <<One, Two>>)}
  \cup {JsSeries(<<One, e>>, <<One, Two>>) : e \in Elements}
  \cup {JsSeries(<<One, Two>>, <<e, Two>>) : e \in Elements}

\* the width and height props: sound, a string, NaN, Infinity, zero and
\* negative
WidthProps ==
  {JsNumber(I(300)), JsString("300"), JsNumber(NaN), JsNumber(PlusInfinity),
   JsNumber(I(0)), JsNumber(I(-100))}

HeightProps == {JsNumber(I(200)), JsString("200"), JsNumber(I(0))}

\* the lineStyle props: none, sound, and widths and opacities out of range
LineStyleProps ==
  {JsUndefined,
   JsLineStyle(Two, One),
   JsLineStyle(JsNumber(I(0)), JsUndefined),
   JsLineStyle(JsNumber(I(-1)), JsUndefined),
   JsLineStyle(JsUndefined, Two),
   JsLineStyle(JsUndefined, JsNumber(Rat(-1, 2)))}

\* the indicators props: none, sound, and x values and widths out of range
IndicatorProps ==
  {<< >>,
   <<JsIndicator(One, JsUndefined)>>,
   <<JsIndicator(JsNumber(NaN), JsUndefined)>>,
   <<JsIndicator(JsString("1"), JsUndefined)>>,
   <<JsIndicator(One, JsNumber(I(0)))>>,
   <<JsIndicator(One, One), JsIndicator(JsNumber(PlusInfinity), One)>>}

\* the Chart is rendered with p
RenderProps(p) ==
  /\ props' = p
  /\ validationError' = ChartRender(p).validationError
  /\ geometryRan' = ChartRender(p).geometryRan
  /\ thrown' = ChartRender(p).thrown
  /\ rendered' = ChartRender(p).rendered
  /\ UNCHANGED renderFrame

SetData ==
  \E d \in DataProps \ {props.data} : RenderProps([props EXCEPT !.data = d])

SetDimensions ==
  \E w \in WidthProps, h \in HeightProps :
    /\ <<w, h>> # <<props.width, props.height>>
    /\ RenderProps([props EXCEPT !.width = w, !.height = h])

SetLineStyle ==
  \E ls \in LineStyleProps \ {props.lineStyle} :
    RenderProps([props EXCEPT !.lineStyle = ls])

SetIndicators ==
  \E ind \in IndicatorProps \ {props.indicators} :
    RenderProps([props EXCEPT !.indicators = ind])

InitRender ==
  /\ RenderFrameIdle
  /\ Rendered(SoundProps)

NextRender ==
  \/ SetData
  \/ SetDimensions
  \/ SetLineStyle
  \/ SetIndicators

\* A Chart rendered again and again as one prop or another changes
SpecRender == InitRender /\ [][NextRender]_vars

\* C18: when validateData rejects the data prop, no geometry step (data
\* scaling, lookup table, interpolation set-up, path generation) runs on it
\* and the render returns the error state.  The Chart calls its hooks before
\* it looks at validationError, so the steps before the return run on the
\* rejected data, and a data prop that is no object at all makes
\* useDataScaling throw.
C18_ValidationGuardsGeometry ==
  validationError # NoError
    => geometryRan = {} /\ rendered = "error state"

\* the errors the validators of dimensions, line style and indicators have
\* for the props
PropErrors ==
  {validateDimensions(props.width, props.height),
   validateLineStyle(props.lineStyle),
   validateIndicators(props.indicators)} \ {NoError}

\* C20: a Chart rendered with a width or height that is no positive finite
\* number, a lineStyle width <= 0 or opacity outside [0, 1], or an indicator
\* with an x that is no finite number or a width <= 0 fails: the matching
\* validation error is raised and no chart is rendered.  The Chart calls
\* none of the three validators.
C20_HardFailure ==
  PropErrors # {} => thrown \in PropErrors /\ rendered # "chart"

\* ------------------------------------------------------------------------
\* Advisories of the validators (C21)
\* ------------------------------------------------------------------------

MaxSeriesLen == 52

\* the series of n points of one kind: x constant or ascending; y constant,
\* varying, or varying with NaN as its second value
SeriesOf(xKind, yKind, n) ==
  JsSeries([i \in 1..n |->
              JsNumber(IF xKind = "constant" THEN I(1) ELSE I(i))],
           [i \in 1..n |->
              IF yKind = "constant" THEN JsNumber(I(5))
              ELSE IF yKind = "broken" /\ i = 2 THEN JsNumber(NaN)
              ELSE JsNumber(I(i % 2))])

XKinds == {"constant", "ascending"}

YKinds == {"constant", "varying", "broken"}

\* the widths and heights handed to validateDimensions
CheckedSizes ==
  {JsNumber(I(n)) : n \in {-5, 0, 1, 30, 49, 50, 51, 300}}
  \cup {JsNumber(NaN), JsNumber(PlusInfinity), JsString("300")}

\* the data range handed to validateIndicators
CheckedXRange == [min |-> I(0), max |-> I(10)]

\* the indicators handed to validateIndicators
CheckedIndicators ==
  {JsIndicator(JsNumber(vx), width) :
     vx \in {I(-1), I(0), I(5), I(10), I(11), NaN},
     width \in {JsUndefined, JsNumber(I(1)), JsNumber(I(0))}}

\* validator was called with args
Check(validator, args, error, warnings) ==
  /\ checked' = [validator |-> validator, args |-> args]
  /\ checkError' = error
  /\ checkWarnings' = warnings
  /\ UNCHANGED advisoryFrame

\* validateData is called on a series of one point
CheckSeries ==
  \E xKind \in XKinds, yKind \in YKinds :
    LET d == SeriesOf(xKind, yKind, 1)
    IN  Check("validateData", <<d>>, validateData(d), DataWarnings(d))

\* validateData is called on a series of its kind that is one point longer
CheckLongerSeries ==
  /\ checked.validator = "validateData"
  /\ Len(checked.args[1].x.items) < MaxSeriesLen
  /\ \E xKind \in XKinds, yKind \in YKinds :
       LET n == Len(checked.args[1].x.items)
           d == SeriesOf(xKind, yKind, n + 1)
       IN  /\ checked.args[1] = SeriesOf(xKind, yKind, n)
           /\ Check("validateData", <<d>>, validateData(d), DataWarnings(d))

CheckDimensions ==
  \E width \in CheckedSizes, height \in CheckedSizes :
    Check("validateDimensions", <<width, height>>,
          validateDimensions(width, height), DimensionWarnings(width, height))

\* validateIndicators is called on one indicator
CheckIndicator ==
  \E indicator \in CheckedIndicators :
    Check("validateIndicators", <<<<indicator>>, CheckedXRange>>,
          validateIndicators(<<indicator>>),
          IndicatorWarnings(<<indicator>>, CheckedXRange))

\* validateIndicators is called with one more indicator
CheckMoreIndicators ==
  /\ checked.validator = "validateIndicators"
  /\ Len(checked.args[1]) < 2
  /\ \E indicator \in CheckedIndicators :
       LET indicators == Append(checked.args[1], indicator)
       IN  Check("validateIndicators", <<indicators, CheckedXRange>>,
                 validateIndicators(indicators),
                 IndicatorWarnings(indicators, CheckedXRange))

InitAdvisory ==
  /\ AdvisoryFrameIdle
  /\ AdvisoryIdle

NextAdvisory ==
  \/ CheckSeries
  \/ CheckLongerSeries
  \/ CheckDimensions
  \/ CheckIndicator
  \/ CheckMoreIndicators

\* the validators called on sound and unsound arguments, with their warnings
SpecAdvisory == InitAdvisory /\ [][NextAdvisory]_vars

\* message was passed to console.warn
Warned(message) == \E k \in 1..Len(checkWarnings) : checkWarnings[k] = message

\* all numbers of an array are one number
AllSame(items) == \A i, j \in 1..Len(items) : items[i].value = items[j].value

\* every element of the array is a finite number
AllSound(items) ==
  \A i \in 1..Len(items) :
    /\ items[i].kind = "number"
    /\ items[i].value \notin {NaN, PlusInfinity, MinusInfinity}

\* the series checked has arrays of one length, not empty, of finite numbers
PassesHardChecks(d) ==
  /\ Len(d.x.items) = Len(d.y.items)
  /\ d.x.items # << >>
  /\ AllSound(d.x.items)
  /\ AllSound(d.y.items)

\* a positive finite number
IsPositive(v) ==
  /\ v.kind = "number"
  /\ v.value \notin {NaN, PlusInfinity, MinusInfinity}
  /\ v.value[1] > 0

\* the indicator passes the hard checks on its x and its width
IndicatorIsSound(indicator) ==
  /\ IsPositive(indicator.width) \/ indicator.width = JsUndefined
  /\ indicator.x.kind = "number"
  /\ indicator.x.value \notin {NaN, PlusInfinity, MinusInfinity}

DataAdvisories ==
  LET d == checked.args[1]
      n == Len(d.x.items)
  IN  PassesHardChecks(d) =>
        /\ checkError = NoError
        /\ Warned("All X values are identical. Chart may not display properly.")
             <=> (n > 1 /\ AllSame(d.x.items))
        /\ Warned("All Y values are identical. Chart will display as a flat line.")
             <=> (n > 1 /\ AllSame(d.y.items))
        /\ Warned("Chart has " \o ToString(n)
                  \o " data points. Performance may be affected above 50 points.")
             <=> n > 50
        /\ Len(checkWarnings)
             = (IF n > 1 /\ AllSame(d.x.items) THEN 1 ELSE 0)
               + (IF n > 1 /\ AllSame(d.y.items) THEN 1 ELSE 0)
               + (IF n > 50 THEN 1 ELSE 0)

DimensionAdvisories ==
  LET width == checked.args[1]
      height == checked.args[2]
  IN  IsPositive(width) /\ IsPositive(height) =>
        /\ checkError = NoError
        /\ checkWarnings # << >>
             <=> (width.value[1] < 50 \/ height.value[1] < 50)

IndicatorAdvisories ==
  LET indicators == checked.args[1]
      xRange == checked.args[2]
      outside == {k \in 1..Len(indicators) :
                    \/ RLt(indicators[k].x.value, xRange.min)
                    \/ RGt(indicators[k].x.value, xRange.max)}
  IN  (\A k \in 1..Len(indicators) : IndicatorIsSound(indicators[k])) =>
        /\ checkError = NoError
        /\ Len(checkWarnings) = Cardinality(outside)
        /\ \A k \in outside :
             Warned(OutsideRangeWarning(indicators[k], k - 1, xRange))

Sides == {"top", "right", "bottom", "left"}

\* the canvas sizes: none, small and usual
Widths == {I(0), I(50), I(300)}

Heights == {I(0), I(30), I(200)}

\* the value a padding object supplies for a side
ExplicitSide ==
  [top |-> I(5), right |-> I(15), bottom |-> I(25), left |-> I(35)]

\* the padding object that supplies the given sides
PaddingOn(sides) ==
  [given |-> TRUE, ref |-> 0,
   top |-> IF "top" \in sides THEN <<ExplicitSide.top>> ELSE << >>,
   right |-> IF "right" \in sides THEN <<ExplicitSide.right>> ELSE << >>,
   bottom |-> IF "bottom" \in sides THEN <<ExplicitSide.bottom>> ELSE << >>,
   left |-> IF "left" \in sides THEN <<ExplicitSide.left>> ELSE << >>]

\* 20 on every side
EvenPadding ==
  [given |-> TRUE, ref |-> 0, top |-> <<I(20)>>, right |-> <<I(20)>>,
   bottom |-> <<I(20)>>, left |-> <<I(20)>>]

\* the padding props: none, every subset of sides, and 20 on every side
Paddings == {NoPadding, EvenPadding} \cup {PaddingOn(s) : s \in SUBSET Sides}

\* the axes props: none, the four combinations of visibility, and an object
\* that names the x-axis only
AxesProps ==
  {NoAxes, [given |-> TRUE, ref |-> 0, x |-> "shown", y |-> "absent"]}
  \cup {[given |-> TRUE, ref |-> 0, x |-> vx, y |-> vy] :
          vx \in {"shown", "hidden"}, vy \in {"shown", "hidden"}}

\* an object equal by value that is not the given object
Fresh(object) == [object EXCEPT !.ref = 1 - @]

\* a render that is not the given object's first takes a fresh object
FreshUnless(object, previous) ==
  IF object.given /\ object.ref = previous.ref THEN Fresh(object) ELSE object

\* the component renders with the props p
CallHook(p) ==
  /\ hookProps' = p
  /\ memoDeps' = DepsOf(p)
  /\ dimensions' = useChartDimensions(p, memoDeps, dimensions).result
  /\ areaWarnings' = useChartDimensions(p, memoDeps, dimensions).warnings
  /\ UNCHANGED dimensionFrame

\* a re-render with the very same props
RenderAgain == CallHook(hookProps)

\* a re-render whose padding or axes object is written inline, and so is a
\* new object with the values of the last one
RenderWithFreshObjects ==
  \/ hookProps.padding.given
       /\ CallHook([hookProps EXCEPT !.padding = Fresh(@)])
  \/ hookProps.axes.given
       /\ CallHook([hookProps EXCEPT !.axes = Fresh(@)])

RenderResized ==
  \E w \in Widths, h \in Heights :
    /\ <<w, h>> # <<hookProps.width, hookProps.height>>
    /\ CallHook([hookProps EXCEPT !.width = w, !.height = h])

RenderWithPadding ==
  \E padding \in Paddings :
    /\ [padding EXCEPT !.ref = 0] # [hookProps.padding EXCEPT !.ref = 0]
    /\ CallHook([hookProps EXCEPT
                   !.padding = FreshUnless(padding, hookProps.padding)])

RenderWithAxes ==
  \E axes \in AxesProps :
    /\ [axes EXCEPT !.ref = 0] # [hookProps.axes EXCEPT !.ref = 0]
    /\ CallHook([hookProps EXCEPT !.axes = FreshUnless(axes, hookProps.axes)])

InitDimensions ==
  /\ DimensionFrameIdle
  /\ DimensionIdle

NextDimensions ==
  \/ RenderAgain
  \/ RenderWithFreshObjects
  \/ RenderResized
  \/ RenderWithPadding
  \/ RenderWithAxes

\* A component that calls useChartDimensions, rendered again and again
SpecDimensions == InitDimensions /\ [][NextDimensions]_vars

\* C22: the chart area is at least 1 wide and 1 high for every canvas and
\* padding, and a warning, never an error, is signalled when canvas minus
\* padding is <= 0.  The hook warns but does not clamp.
C22_AreaAtLeastOne ==
  /\ RGe(dimensions.chartArea.width, I(1))
  /\ RGe(dimensions.chartArea.height, I(1))

\* C23: with width 300, height 200, no padding and no axes the chart area is
\* {x: 20, y: 10, width: 260, height: 170} and the padding {top: 10,
\* right: 20, bottom: 20, left: 20}.  The top padding of the code is 20.
C23_Defaults ==
  hookProps = [width |-> I(300), height |-> I(200),
               padding |-> NoPadding, axes |-> NoAxes]
    => /\ dimensions.chartArea
            = [x |-> I(20), y |-> I(10), width |-> I(260), height |-> I(170)]
       /\ dimensions.padding
            = [top |-> I(10), right |-> I(20), bottom |-> I(20), left |-> I(20)]

\* the default of a side: top and right fixed, bottom and left larger when
\* their axis is shown
DefaultOf(side) ==
  CASE side = "top" -> I(20)
    [] side = "right" -> I(20)
    [] side = "bottom" -> IF hookProps.axes.x = "shown" THEN I(40) ELSE I(20)
    [] side = "left" -> IF hookProps.axes.y = "shown" THEN I(60) ELSE I(20)

\* the side as the padding prop and the defaults give it
ExpectedSide(side) ==
  IF hookProps.padding[side] # << >> THEN hookProps.padding[side][1]
  ELSE DefaultOf(side)

ByValue(p) == [p EXCEPT !.padding.ref = 0, !.axes.ref = 0]

\* C25: when two consecutive calls of useChartDimensions get inputs that are
\* equal by value, a freshly created padding or axes object included, the
\* second returns the very object the first returned; when a value differs
\* it returns a new one.  useMemo compares padding and axes by identity.
C25_StableForEqualInputs ==
  [][/\ ByValue(hookProps') = ByValue(hookProps)
          => dimensions'.ref = dimensions.ref
     /\ ByValue(hookProps') # ByValue(hookProps)
          => dimensions'.ref # dimensions.ref]_vars

\* ------------------------------------------------------------------------
\* The dashed gap indicators (C26)
\* ------------------------------------------------------------------------

\* the gapPaths memo of the LineRenderer that drew mainPath
gapPaths == LineRendererGapPaths(scaling.scaledData, gaps)

\* the positions of the main path's instructions that break it with a
\* move-to
Breaks == {k \in 2..Len(mainPath) : mainPath[k][1] = "M"}

\* the straight segment between the two points the main path breaks between
\* at position k
SegmentAcross(k) ==
  << <<"M", EndPoint(mainPath[k - 1])[1], EndPoint(mainPath[k - 1])[2]>>,
     <<"L", EndPoint(mainPath[k])[1], EndPoint(mainPath[k])[2]>> >>

\* C26: with gaps enabled, for a series in any x order, every gap-indicator
\* path is the straight segment 'M start L end' between the two scaled
\* points between which the main path breaks with a move-to, and there is
\* one indicator per break.  generatePath detects the gaps on the points
\* sorted by originalX, the LineRenderer on the points as they are listed.
C26_IndicatorsFollowBreaks ==
  gaps.enabled /\ Len(scaling.scaledData) >= 2 =>
    /\ Len(gapPaths) = Cardinality(Breaks)
    /\ {gapPaths[k] : k \in 1..Len(gapPaths)}
         = {SegmentAcross(k) : k \in Breaks}

\* ------------------------------------------------------------------------
\* The two binary searches on the same list (C27)
\* ------------------------------------------------------------------------

\* The numbers of the generic search written as the exact numbers the
\* interpolation search computes with.  One unit of 2^-53 is written as
\* UlpAsRational: the interpolation search only orders two numbers and
\* tests whether they are less than one half apart, and both come out the
\* same for every unit smaller than 1 / (8 * MaxUlps).
UlpAsRational == Rat(1, 1024)

ExactValueOf(d) == RAdd(Rat(d.half, 2), RMul(I(d.ulps), UlpAsRational))

\* the searched items as scaled points whose screen x is the item's value
ItemsAsScaledPoints ==
  [k \in 1..Len(searchArray) |-> [x |-> ExactValueOf(getValue(searchArray[k]))]]

\* what the interpolation engine's search returns for the same list and
\* the same query
InternalResult ==
  InterpolationSearch(ItemsAsScaledPoints, ExactValueOf(searchTarget))

\* C27: on every ascending list (the empty list included) and for every
\* query value the interpolation engine's internal binary search and the
\* generic binarySearch return the same exact / lower / upper result.
C27_SearchesAgree == InternalResult = <<searchResult>>

\* ------------------------------------------------------------------------
\* Touches on a chart (C28, C29)
\*
\* The handlers are called by the gesture library: the pan's onBegin when a
\* touch starts, its onUpdate while the pan is active, its onEnd when an
\* active pan finishes; the tap's onStart when the tap is recognised.  The
\* two gestures race: the first to activate cancels the other.
\* ------------------------------------------------------------------------

MaxTouchPoints == 2

MaxTouchX == 2

\* the series of the touched charts: up to MaxTouchPoints points, in any
\* x order
TouchedSeries ==
  UNION {{[x |-> [k \in 1..n |-> I(xs[k])], y |-> [k \in 1..n |-> I(xs[k] % 2)]] :
            xs \in [1..n -> 0..MaxTouchX]} : n \in 0..MaxTouchPoints}

\* the lookupTable the chart hands to the hook
TableOf(d, area) ==
  useCoordinateLookup(d, area, ScaledDataOf(ScalingContext(d, area, NoGaps, << >>), d))

CallbackProps == {"onDrag", "onDragStart", "onDragEnd", "onTap"}

InitGesture ==
  /\ GestureFrameIdle
  /\ \E d \in TouchedSeries, enabled \in BOOLEAN, callbacks \in SUBSET CallbackProps :
       GestureMounted([lookupTable |-> TableOf(d, WideArea), enabled |-> enabled,
                       chartArea |-> WideArea, callbacks |-> callbacks])

\* where a touch can be: across the rectangle, on every zone boundary and
\* point, and one pixel outside the rectangle to either side
TouchXs ==
  PointerXs(gestureProps.chartArea, gestureProps.lookupTable)
  \cup {RSub(gestureProps.chartArea.x, I(1)),
        RAdd(RectRight(gestureProps.chartArea), I(1))}

sharedValues == [dragX |-> dragX, dragY |-> dragY, isActive |-> isActive]

\* the library calls a handler, or changes a gesture's state without one
\* (eventX is Undefined then)
Handle(type, eventX, outcome, pan, tap) ==
  /\ event' = <<[type |-> type, x |-> eventX]>>
  /\ dragX' = outcome.shared.dragX
  /\ dragY' = outcome.shared.dragY
  /\ isActive' = outcome.shared.isActive
  /\ calls' = outcome.calls
  /\ panState' = pan
  /\ tapState' = tap
  /\ UNCHANGED <<gestureProps, gestureFrame>>

NoHandler == [shared |-> sharedValues, calls |-> << >>]

\* a finger comes down: both gestures begin, the pan's onBegin runs
TouchDown ==
  /\ gestureProps.enabled
  /\ panState = "undetermined"
  /\ tapState = "undetermined"
  /\ \E eventX \in TouchXs :
       Handle("panBegin", eventX, PanOnBegin(gestureProps, sharedValues, eventX),
              "began", "began")

\* the finger moves: the pan activates and the tap is cancelled
PanActivates ==
  /\ panState = "began"
  /\ Handle("panStart", Undefined, NoHandler, "active", "undetermined")

PanUpdate ==
  /\ panState = "active"
  /\ \E eventX \in TouchXs :
       Handle("panUpdate", eventX, PanOnUpdate(gestureProps, sharedValues, eventX),
              "active", "undetermined")

\* the finger is lifted from an active pan
PanEnd ==
  /\ panState = "active"
  /\ \E eventX \in TouchXs :
       Handle("panEnd", eventX, PanOnEnd(gestureProps, sharedValues, eventX),
              "undetermined", "undetermined")

\* the finger is lifted within maxDuration without having moved: the tap is
\* recognised, and the pan, which never activated, is cancelled
TapWins ==
  /\ panState = "began"
  /\ tapState = "began"
  /\ \E eventX \in TouchXs :
       Handle("tap", eventX, TapOnStart(gestureProps, sharedValues, eventX),
              "undetermined", "undetermined")

\* the finger rests longer than maxDuration(250): the tap fails
TapTimesOut ==
  /\ panState = "began"
  /\ tapState = "began"
  /\ Handle("tapFailed", Undefined, NoHandler, "began", "failed")

\* the finger is lifted without having moved, after the tap failed: the pan
\* fails without having been active, and onEnd is not called
TouchUpUnrecognised ==
  /\ panState = "began"
  /\ tapState = "failed"
  /\ Handle("panFailed", Undefined, NoHandler, "undetermined", "undetermined")

NextGesture ==
  \/ TouchDown
  \/ PanActivates
  \/ PanUpdate
  \/ PanEnd
  \/ TapWins
  \/ TapTimesOut
  \/ TouchUpUnrecognised

\* Touches on charts of every small series, with and without interaction
\* and callbacks
SpecGesture == InitGesture /\ [][NextGesture]_vars

\* the callback prop the handler of an event of this type hands to
\* handleEvent ("": the event has no handler)
CallbackOf(type) ==
  CASE type = "panBegin" -> "onDragStart"
    [] type = "panUpdate" -> "onDrag"
    [] type = "panEnd" -> "onDragEnd"
    [] type = "tap" -> "onTap"
    [] OTHER -> ""

\* the entries in whose hit zone the x of the event lies
OwnersOf(e) ==
  IF e.x = Undefined THEN {}
  ELSE ZoneOwners(gestureProps.lookupTable, e.x)

\* the call that reports entry k through callback
CallWith(callback, k) ==
  [callback |-> callback,
   x |-> gestureProps.lookupTable[k].originalX,
   y |-> gestureProps.lookupTable[k].originalY,
   index |-> gestureProps.lookupTable[k].dataIndex]

\* what one event does to the position, the table and the callbacks
EventFrame ==
  LET e == event'[1]
      callback == CallbackOf(e.type)
  IN  /\ gestureProps' = gestureProps
      /\ IF callback \in gestureProps.callbacks /\ OwnersOf(e) # {}
           THEN \E k \in OwnersOf(e) :
                  /\ dragX' = gestureProps.lookupTable[k].scaledX
                  /\ dragY' = gestureProps.lookupTable[k].scaledY
                  /\ calls' = <<CallWith(callback, k)>>
         ELSE /\ dragX' = dragX
              /\ dragY' = dragY
              /\ calls' = << >>

\* the position is the initial one or that of some entry
AtInitialOrEntry ==
  \/ /\ dragX = getInitialPosition(gestureProps).x
     /\ dragY = getInitialPosition(gestureProps).y
  \/ \E k \in 1..Len(gestureProps.lookupTable) :
       /\ dragX = gestureProps.lookupTable[k].scaledX
       /\ dragY = gestureProps.lookupTable[k].scaledY

\* C28: a pan begin, pan update, pan end or tap changes dragX / dragY only
\* when the callback of that event type is supplied and the event's x is in
\* a hit zone of the table; it then sets them to that entry's scaled
\* position and calls the callback once with the entry's original x, y and
\* index; otherwise the position and the table stay and no callback is
\* called.  So the position is always the initial one or that of an entry.
C28_HandlerFrame == [][EventFrame]_vars /\ []AtInitialOrEntry

\* a drag moved the position from the last point to another entry
C28_Witness ==
  /\ event # << >>
  /\ event[1].type = "panUpdate"
  /\ Len(calls) = 1
  /\ calls[1].callback = "onDrag"
  /\ Len(gestureProps.lookupTable) >= 2
  /\ dragX # getInitialPosition(gestureProps).x
  /\ panState = "active"

NoGestureInProgress == panState = "undetermined" /\ tapState = "undetermined"

LastEventIs(type) == event # << >> /\ event[1].type = type

\* C29: with interaction enabled isActive is true once a pan began, false
\* once it ended and false after a tap, so it is false whenever no gesture
\* is in progress, whichever gesture wins and whatever callbacks are
\* supplied; with interaction disabled it stays false and nothing is called.
C29_ActiveOnlyDuringGesture ==
  /\ LastEventIs("panBegin") => isActive
  /\ LastEventIs("panEnd") \/ LastEventIs("tap") => ~isActive
  /\ NoGestureInProgress => ~isActive
  /\ ~gestureProps.enabled => ~isActive /\ calls = << >>

\* ------------------------------------------------------------------------
\* The scaled points in fixed-width-gap mode (C30)
\* ------------------------------------------------------------------------

\* points k and k + 1 (1-based) bound a detected gap
BoundsGap(sc, k) == \E gap \in GapsOf(sc) : gap.startIndex = k - 1

\* the neighbouring pairs that lie within one data segment
SegmentPairs(sc, points) ==
  {k \in 1..(Len(points) - 1) : ~BoundsGap(sc, k)}

ScreenStep(points, k) == RSub(points[k + 1].x, points[k].x)

OriginalStep(points, k) == RSub(points[k + 1].originalX, points[k].originalX)

\* C30: in fixed-width-gap mode with a gap detected the scaled x are
\* non-decreasing in index, the first point is at rect.x and the last at
\* rect.x + rect.width, every point lies inside the rectangle horizontally,
\* and within the data segments screen distance is one common multiple of
\* the distance in x.
C30_FixedWidthLayout ==
  LET sc == scaling.sc
      points == scaling.scaledData
  IN  FixedWidthMode(sc) =>
        /\ AscendingScreenX(points)
        /\ REq(points[1].x, chartArea.x)
        /\ REq(points[Len(points)].x, RectRight(chartArea))
        /\ \A k \in 1..Len(points) : InsideRect(chartArea, points[k].x)
        /\ \A j, k \in SegmentPairs(sc, points) :
             REq(RMul(ScreenStep(points, j), OriginalStep(points, k)),
                 RMul(ScreenStep(points, k), OriginalStep(points, j)))
====
